---- MODULE Spec2Model ----
(***************************************************************************)
(* Neoray: the single-instance coordinator (src/src/ipc.go), the tick loop *)
(* of the editor (src/unnamed/part_001) and the backend session            *)
(* (src/src/nvimproc.go), modelled as state machines.                      *)
(***************************************************************************)
EXTENDS Integers, Sequences, FiniteSets, TLC

(***************************************************************************)
(* Bounds of the model.                                                    *)
(***************************************************************************)
\* connections the server accepts (one client process each)
NumConns == 2
\* calls the client process of Spec makes
MaxCalls == 2
\* calls the client processes of SpecQueue make in total
MaxQueued == 3
\* window-refresh events delivered inside one PollEvents
MaxRefresh == 1
\* processes started on the machine
NumProcs == 3
\* window close events delivered to the application thread
MaxClose == 2
\* largest element count of the data given to a buffer update
MaxCount == 2
\* buffer updates and renders in one run of the renderer
MaxUpdates == 3
\* largest major, minor and patch number the backend reports
MaxMajor == 2
MaxMinor == 5
MaxPatch == 1
\* calls of the NeorayOptionSet handler in one run
MaxOptions == 2
\* input and inputMouse calls in one run
MaxInputs == 2

Conns == 1..NumConns
\* processes started on the machine
Procs == 1..NumProcs

(***************************************************************************)
(* ipc.go constants.                                                       *)
(***************************************************************************)
DEFAULT_BUFFER_SIZE == 1024
IPC_MSG_TYPE_OK == 0
IPC_MSG_TYPE_CLOSE_CONN == 1
IPC_MSG_TYPE_OPEN_FILE == 2
IPC_MSG_TYPE_GOTO_LINE == 3
IPC_MSG_TYPE_GOTO_COLUMN == 4

IpcMessageType == IPC_MSG_TYPE_OK..IPC_MSG_TYPE_GOTO_COLUMN

\* getMacAddress(): the 64-bit identity of a machine.  The server's machine
\* has identity 1; a client runs on the same machine or on another one (2).
getMacAddress(machine) == machine
ServerMachine == 1
Machines == {1, 2}

(***************************************************************************)
(* Go values carried in Args ([]interface{}) and their JSON encoding.      *)
(* A value is [k |-> kind, v |-> number]; a string is given by its length  *)
(* in bytes.                                                               *)
(***************************************************************************)
\* bytes of a path such as "foo.txt"
ShortPath == 7
\* bytes of a path longer than one read buffer
LongPath == 2000
GoString(s) == [k |-> "string", v |-> s]
GoInt(n) == [k |-> "int", v |-> n]
GoFloat64(n) == [k |-> "float64", v |-> n]

\* bytes of the JSON text of one value
JsonSize(val) == IF val.k = "string" THEN val.v + 2 ELSE 1
\* bytes of {"MsgType":t,"MacAddress":m,"Args":[...]}
RECURSIVE ArgsSize(_)
ArgsSize(args) == IF args = <<>> THEN 0 ELSE JsonSize(Head(args)) + 1 + ArgsSize(Tail(args))
EncodedSize(call) == 40 + ArgsSize(call.Args)

\* json.Marshal of one Go value: int and float64 both become a JSON number
JsonValue(val) == IF val.k = "string" THEN [j |-> "string", v |-> val.v]
                  ELSE [j |-> "number", v |-> val.v]
\* json.Unmarshal into interface{}: a JSON number becomes float64
GoValue(jv) == IF jv.j = "string" THEN GoString(jv.v) ELSE GoFloat64(jv.v)

\* json.Marshal(IpcFuncCall{...}): the text, with its length
Marshal(call) ==
    [ok |-> TRUE, size |-> EncodedSize(call), MsgType |-> call.MsgType,
     MacAddress |-> call.MacAddress,
     Args |-> [i \in 1..Len(call.Args) |-> JsonValue(call.Args[i])]]
\* a run of bytes that is not one JSON document
Garbage == [ok |-> FALSE, size |-> 0, MsgType |-> 0, MacAddress |-> 0, Args |-> <<>>]
\* json.Unmarshal(data, &funcCall); err is reported by UnmarshalErr
UnmarshalErr(data) == ~data.ok
Unmarshal(data) ==
    [MsgType |-> data.MsgType, MacAddress |-> data.MacAddress,
     Args |-> [i \in 1..Len(data.Args) |-> GoValue(data.Args[i])]]

\* What the peer's conn.Read calls (one buffer of DEFAULT_BUFFER_SIZE each)
\* return for one conn.Write: a text longer than the buffer arrives as two
\* reads, neither of which is a JSON document.
Chunks(data) == IF data.size <= DEFAULT_BUFFER_SIZE THEN <<data>> ELSE <<Garbage, Garbage>>

\* the calls a client process issues
CallInputs ==
    {<<IPC_MSG_TYPE_CLOSE_CONN, <<>>>>,
     <<IPC_MSG_TYPE_OPEN_FILE, <<GoString(ShortPath)>>>>,
     <<IPC_MSG_TYPE_OPEN_FILE, <<GoString(LongPath)>>>>,
     <<IPC_MSG_TYPE_OPEN_FILE, <<>>>>,
     <<IPC_MSG_TYPE_GOTO_LINE, <<GoInt(3)>>>>,
     <<IPC_MSG_TYPE_GOTO_COLUMN, <<GoInt(3)>>>>,
     <<IPC_MSG_TYPE_OK, <<>>>>}

VARIABLES
    \* ---- IpcClient, one per connection
    cpc,            \* position of the client: "init", "idle", "wait", "done"
    cmac,           \* IpcClient.mac
    ccalls,         \* number of Call invocations made
    cur,            \* the call in progress: [MsgType, Args]
    ret,            \* result of the last Call: "none", "true", "false"
    cliOpen,        \* the client's end of the connection is open
    \* ---- the TCP connection
    c2s,            \* reads pending at the server, oldest first, each with the
                    \* number of the client's call it was written by
    s2c,            \* reads pending at the client, oldest first, each with the
                    \* number of the client's call it answers
    broken,         \* the transport failed: reads and writes return errors
    \* ---- IpcServer
    rpc,            \* position of the per-connection reader goroutine
    rcall,          \* funcCall of the reader's last iteration that decoded one
    rerr,           \* last err of the reader: "none", "read", "decode", "write"
    srvOpen,        \* the server's end of the connection is open
    calls,          \* IpcServer.calls
    callsAvailable, \* IpcServer.callsAvailable
    callsMutex,     \* IpcServer.callsMutex: "free", "app" or "reader"
    serverAlive,    \* the server process has not panicked
    \* ---- effects of update()
    dispatched,     \* operations update() invoked in the current tick, in order
    raised,         \* singleton.window.raise() calls in the current tick
    \* ---- application thread (MainLoop)
    appPc,          \* "select", "poll", "get", "drain", "crashed", "send", "stopped"
    inRefresh,      \* UpdateHandler was entered from the refresh event
    refreshesInTick,\* refresh events handled in the current tick
    drainsInTick,   \* server.Update() invocations in the current tick
    hasServer,      \* Editor.server != nil
    \* ---- history of the current call of each client
    appendedFor,    \* records appended for the client's current call
    rcallOf,        \* the number of the client's call that rcall came from
    nAppended,      \* records appended for the connection so far
    nConsumed,      \* records of the connection update() has handled so far
    \* ---- one IpcClient.Call against an arbitrary peer
    kcase,          \* [mac, writeErr, readErr, resp, done, ok, close]
    \* ---- election of the server among the processes of one machine
    listener,       \* the processes holding a listener on DEFAULT_ADDRESS
    epc,            \* position of each process in its start-up
    dialled,        \* the process a client's connection reached, 0 when none
    blockedBy,      \* the process that held the address when the bind failed
    forwarded,      \* the process the client's request was sent to, 0 when none
    \* ---- the backend session and the quit event
    spc,            \* the Serve goroutine: "serving", "send", "closed", "failed"
    quitChan,       \* number of values buffered in Editor.quitChan
    quitSent,       \* number of sends on the quit channel that completed
    connectedViaTcp,\* Editor.nvim.connectedViaTcp
    closeEvents,    \* window close events handled so far
    \* ---- one key event and the character event of the same press
    kin,
    \* ---- the vertex and the index buffer of the renderer
    gpu,
    \* ---- the option-change queue and the options of the editor
    opt,
    \* ---- the version handshake
    ver,
    \* ---- input transmission to the backend
    inp,
    \* ---- the steps ShutdownEditor has performed, in order
    shut,
    \* ---- the mouse handlers and the tracked modifier keys
    mou,
    \* ---- the objects of the GL renderer
    rgl,
    \* ---- one value under encoding, decoding or identity derivation
    fn,
    \* ---- the editor state, the draw flags, the default grid and the viewport
    ed

cvars == <<cpc, cmac, ccalls, cur, ret, cliOpen>>
nvars == <<c2s, s2c, broken>>
svars == <<rpc, rcall, rerr, srvOpen, calls, callsAvailable, callsMutex, serverAlive>>
evars == <<dispatched, raised>>
avars == <<appPc, inRefresh, refreshesInTick, drainsInTick, hasServer>>
hvars == <<appendedFor, rcallOf, nAppended, nConsumed>>
kvars == <<kcase>>
elvars == <<listener, epc, dialled, blockedBy, forwarded>>
qvars == <<spc, quitChan, quitSent, connectedViaTcp, closeEvents>>
\* the input handlers, the renderer, the options, the handshake, input
\* transmission and shutdown
yvars == <<kin, gpu, opt, ver, inp, shut>>
\* the mouse and modifier state, the GL objects, the value under conversion
zvars == <<mou, rgl, fn, ed>>
\* the variables outside the coordinator and the tick loop
xvars == <<kvars, elvars, qvars, yvars, zvars>>
\* the coordinator, the tick loop, the election and the quit event, and the
\* mouse, the GL objects and the value under conversion
coordvars == <<cvars, nvars, svars, evars, avars, hvars, kvars, elvars, qvars, zvars>>
\* every variable but the mouse, the GL objects and the value under
\* conversion
basevars == <<cvars, nvars, svars, evars, avars, hvars, kvars, elvars, qvars, yvars>>
vars == <<cvars, nvars, svars, evars, avars, hvars, xvars>>

NoCall == [MsgType |-> IPC_MSG_TYPE_OK, MacAddress |-> 0, Args |-> <<>>]

\* the coordinator with no connection yet, and the tick loop at its select
CoordInit ==
    /\ cpc = [c \in Conns |-> "init"]
    /\ cmac = [c \in Conns |-> 0]
    /\ ccalls = [c \in Conns |-> 0]
    /\ cur = [c \in Conns |-> NoCall]
    /\ ret = [c \in Conns |-> "none"]
    /\ cliOpen = [c \in Conns |-> FALSE]
    /\ c2s = [c \in Conns |-> <<>>]
    /\ s2c = [c \in Conns |-> <<>>]
    /\ broken = [c \in Conns |-> FALSE]
    /\ rpc = [c \in Conns |-> "none"]
    /\ rcall = [c \in Conns |-> NoCall]
    /\ rerr = [c \in Conns |-> "none"]
    /\ srvOpen = [c \in Conns |-> FALSE]
    /\ calls = <<>>
    /\ callsAvailable = FALSE
    /\ callsMutex = "free"
    /\ serverAlive = TRUE
    /\ dispatched = <<>>
    /\ raised = 0
    /\ appPc = "select"
    /\ inRefresh = FALSE
    /\ refreshesInTick = 0
    /\ drainsInTick = 0
    /\ appendedFor = [c \in Conns |-> 0]
    /\ rcallOf = [c \in Conns |-> 0]
    /\ nAppended = [c \in Conns |-> 0]
    /\ nConsumed = [c \in Conns |-> 0]

\* no Call under test
CallIdle ==
    kcase = [mac |-> 0, writeErr |-> FALSE, readErr |-> FALSE, resp |-> Garbage,
             done |-> FALSE, ok |-> FALSE, close |-> FALSE]

\* no process started yet
ElectionInit ==
    /\ listener = {}
    /\ epc = [p \in Procs |-> "start"]
    /\ dialled = [p \in Procs |-> 0]
    /\ blockedBy = [p \in Procs |-> 0]
    /\ forwarded = [p \in Procs |-> 0]

\* InitEditor: the session is being served, quitChan = make(chan bool, 1)
QuitInit ==
    /\ spc = "serving"
    /\ quitChan = 0
    /\ quitSent = 0
    /\ closeEvents = 0

\* no key event delivered; InitializeInputEvents: popupMenuEnabled = true
KeyIdleRecord ==
    [key |-> "a", action |-> "Release", ctrl |-> FALSE, shift |-> FALSE, alt |-> FALSE,
     super |-> FALSE, menuVisible |-> FALSE, menuWas |-> FALSE, popupMenuEnabled |-> TRUE,
     pc |-> "idle", keycode |-> "", keySent |-> <<>>, charSent |-> <<>>, binding |-> "none"]

KeyIdle == kin = KeyIdleRecord

\* var rgl_vertex_buffer_len int; var rgl_element_buffer_len int; nothing
\* uploaded yet
\* vlen, elen are the two variables; vlast, elast the element count of the
\* last upload and vprev, eprev of the one before it (-1: none); vop, eop the
\* GL call of the last update; drawn the count of the last DrawElements
GpuInit ==
    gpu = [vlen |-> 0, elen |-> 0, vlast |-> -1, elast |-> -1, vprev |-> -1, eprev |-> -1,
           vop |-> "none", eop |-> "none", drawn |-> -1, n |-> 0]

\* DefaultOptions(): targetTPS: 60, contextMenuEnabled: true,
\* keyIncreaseFontSize: "<C-kPlus>"
DefaultOptions ==
    [targetTPS |-> 60, contextMenuEnabled |-> TRUE, keyIncreaseFontSize |-> "<C-kPlus>"]

\* CreateNvimProcess: optionStack = make([]TemporaryOption, 0); no option
\* set and no checkOptions yet
\* stack, changed are optionStack and optionChanged; options the Options in
\* effect; sets the calls of the NeorayOptionSet handler so far; last the
\* outcome of the latest checkOptions ("none", "skipped", "drained",
\* "panic"), resets the resetTicker calls it made
OptIdle ==
    opt = [stack |-> <<>>, changed |-> FALSE, options |-> DefaultOptions, sets |-> 0,
           last |-> "none", resets |-> 0]

\* requestApiInfo not yet called
VerIdle ==
    ver = [major |-> 0, minor |-> 0, patch |-> 0, err |-> FALSE, done |-> FALSE, fatal |-> FALSE]

\* no input sent yet
\* calls counts the input and inputMouse calls, attempts the handle.Input
\* and handle.InputMouse calls they made, warns their log lines; outcomes
\* has what each transmission returned, in call order
InpInit == inp = [calls |-> 0, attempts |-> 0, outcomes |-> <<>>, warns |-> 0]

\* no mouse event yet: lastMousePos, lastMouseButton, lastMouseModifiers and
\* lastMouseAction have their zero values (glfw.Release is 0)
\* lastMouseModifiers is kept as the sequence of its one-letter markers;
\* held and heldKeys are the buttons and the modifier keys physically down;
\* ev is the last event and out the inputs its handler forwarded;
\* forwardedDown are the buttons whose last forwarded action was a press
NoEvent == [type |-> "none", button |-> "", action |-> "", offered |-> FALSE, handled |-> FALSE]

MouIdle ==
    mou = [lastMousePos |-> [X |-> 0, Y |-> 0], lastMouseButton |-> "",
           lastMouseModifiers |-> <<>>, lastMouseAction |-> "Release",
           held |-> {}, heldKeys |-> {}, ev |-> NoEvent, out |-> <<>>,
           forwardedDown |-> {}]

\* RGL_Init not yet called: no GL object created, none alive
RglIdle == rgl = [alive |-> {}, created |-> {}, pc |-> "start"]

\* no value under conversion: no record being encoded or decoded, no
\* interface list enumerated
FnIdle == fn = [pc |-> "idle", call |-> NoCall, data |-> Garbage, got |-> NoCall,
                interfaces |-> <<>>, err |-> FALSE, mac |-> 0]

\* EditorState
EditorNotInitialized == 0
EditorInitialized == 1
EditorLoopStarted == 2
EditorFirstFlush == 3
EditorWindowShown == 4
EditorLoopStopped == 5
EditorDestroyed == 6

\* the default grid before the backend sent its first grid_resize
NoGrid == [ok |-> FALSE, rows |-> 0, cols |-> 0]

\* InitEditor done: state EditorInitialized, the draw flags false, the window
\* created 800 by 600 and its viewport set, no resize event handled, no
\* resize request sent; ops are the draw and render calls of the last tick,
\* kept tells whether a tick below EditorWindowShown ended with a flag set
EdIdleRecord ==
    [state |-> EditorInitialized, cDraw |-> FALSE, cForceDraw |-> FALSE,
     cRender |-> FALSE, pc |-> "select", ticks |-> 0, ops |-> <<>>,
     grid |-> NoGrid, events |-> 0, ev |-> [width |-> 0, height |-> 0],
     spawned |-> <<>>, requests |-> <<>>,
     viewport |-> [width |-> 800, height |-> 600], setViewports |-> 0,
     kept |-> FALSE]
EdIdle == ed = EdIdleRecord

\* the mouse, the GL objects, the value under conversion and the editor's
\* frame state at rest
MoreInit ==
    /\ MouIdle
    /\ RglIdle
    /\ FnIdle
    /\ EdIdle

\* the parts of the editor outside the coordinator, at rest
RestInit ==
    /\ KeyIdle
    /\ GpuInit
    /\ OptIdle
    /\ VerIdle
    /\ InpInit
    /\ shut = <<>>
    /\ MoreInit

Init ==
    /\ CoordInit
    /\ hasServer = TRUE
    /\ CallIdle
    /\ ElectionInit
    /\ QuitInit
    /\ connectedViaTcp = FALSE
    /\ RestInit

(***************************************************************************)
(* The transport.                                                          *)
(***************************************************************************)
\* both ends are open and the transport works
Healthy(c) == ~broken[c] /\ cliOpen[c] /\ srvOpen[c] /\ serverAlive

\* net.Listen/Accept side of a dial: the connection exists once dialled
CreateClient(c, machine) ==
    /\ cpc[c] = "init"
    /\ serverAlive
    /\ cpc' = [cpc EXCEPT ![c] = "idle"]
    /\ cmac' = [cmac EXCEPT ![c] = getMacAddress(machine)]
    /\ cliOpen' = [cliOpen EXCEPT ![c] = TRUE]
    /\ srvOpen' = [srvOpen EXCEPT ![c] = TRUE]
    /\ UNCHANGED <<ccalls, cur, ret, nvars, rpc, rcall, rerr, calls, callsAvailable,
                   callsMutex, serverAlive, evars, avars, hvars, xvars>>

\* a failure of the network under an established connection
ConnBreak(c) ==
    /\ cpc[c] # "init"
    /\ ~broken[c]
    /\ broken' = [broken EXCEPT ![c] = TRUE]
    /\ UNCHANGED <<cvars, c2s, s2c, svars, evars, avars, hvars, xvars>>

(***************************************************************************)
(* IpcClient.Call                                                          *)
(***************************************************************************)
\* Call taking every decoded reply of its own identity for an OK
CallOutcomeAnyType(mac, writeErr, readErr, resp) ==
    IF writeErr \/ readErr \/ UnmarshalErr(resp) THEN [ok |-> FALSE, close |-> FALSE]
    ELSE [ok |-> Unmarshal(resp).MacAddress = mac, close |-> FALSE]

\* The result of Call once the write and the read have returned: ok is the
\* value returned, close tells whether client.conn.Close() was called.
CallOutcome(mac, writeErr, readErr, resp) ==
    IF writeErr THEN [ok |-> FALSE, close |-> FALSE]
    ELSE IF readErr THEN [ok |-> FALSE, close |-> FALSE]
    ELSE IF UnmarshalErr(resp) THEN [ok |-> FALSE, close |-> FALSE]
    ELSE LET funcCall == Unmarshal(resp) IN
         IF funcCall.MacAddress # mac THEN [ok |-> FALSE, close |-> FALSE]
         ELSE IF funcCall.MsgType = IPC_MSG_TYPE_CLOSE_CONN THEN [ok |-> TRUE, close |-> TRUE]
         ELSE IF funcCall.MsgType # IPC_MSG_TYPE_OK THEN [ok |-> FALSE, close |-> FALSE]
         ELSE [ok |-> TRUE, close |-> FALSE]

RECURSIVE SumOver(_, _)
SumOver(f, S) == IF S = {} THEN 0 ELSE LET x == CHOOSE y \in S : TRUE IN f[x] + SumOver(f, S \ {x})
TotalCalls == SumOver(ccalls, Conns)

RetOf(out) == IF out.ok THEN "true" ELSE "false"

\* Call up to and including client.conn.Write(jsonData)
CallWrite(c, msgType, args, max) ==
    /\ cpc[c] = "idle"
    /\ TotalCalls < max
    /\ LET jsonData == Marshal([MsgType |-> msgType, MacAddress |-> cmac[c], Args |-> args])
           fail == /\ cpc' = cpc
                   /\ ret' = [ret EXCEPT ![c] = RetOf(CallOutcome(cmac[c], TRUE, FALSE, Garbage))]
                   /\ c2s' = c2s
           sent == /\ cpc' = [cpc EXCEPT ![c] = "wait"]
                   /\ ret' = [ret EXCEPT ![c] = "none"]
                   /\ c2s' = [c2s EXCEPT ![c] = @ \o
                              [i \in 1..Len(Chunks(jsonData)) |->
                                  [data |-> Chunks(jsonData)[i], call |-> ccalls[c] + 1]]]
           lost == /\ cpc' = [cpc EXCEPT ![c] = "wait"]
                   /\ ret' = [ret EXCEPT ![c] = "none"]
                   /\ c2s' = c2s
       IN  IF Healthy(c) THEN sent
           ELSE IF ~cliOpen[c] THEN fail
           ELSE fail \/ lost
    /\ cur' = [cur EXCEPT ![c] = [MsgType |-> msgType, MacAddress |-> cmac[c], Args |-> args]]
    /\ ccalls' = [ccalls EXCEPT ![c] = @ + 1]
    /\ appendedFor' = [appendedFor EXCEPT ![c] = 0]
    /\ UNCHANGED <<cmac, cliOpen, s2c, broken, svars, evars, avars, rcallOf, nAppended,
                   nConsumed, xvars>>

\* Call from client.conn.Read(resp) to its return
CallRead(c) ==
    /\ cpc[c] = "wait"
    /\ LET readErr == broken[c] \/ s2c[c] = <<>>
           resp == IF readErr THEN Garbage ELSE Head(s2c[c]).data
           out == CallOutcome(cmac[c], FALSE, readErr, resp)
       IN  \* the read blocks while the connection is open and nothing arrived
           /\ readErr => (broken[c] \/ ~srvOpen[c] \/ ~serverAlive)
           /\ ret' = [ret EXCEPT ![c] = RetOf(out)]
           /\ cliOpen' = [cliOpen EXCEPT ![c] = IF out.close THEN FALSE ELSE @]
           /\ s2c' = [s2c EXCEPT ![c] = IF readErr THEN @ ELSE Tail(@)]
    /\ cpc' = [cpc EXCEPT ![c] = "idle"]
    /\ UNCHANGED <<cmac, ccalls, cur, c2s, broken, svars, evars, avars, hvars, xvars>>

\* the client process ends or is killed; its socket is closed by the system
ClientExit(c) ==
    /\ cpc[c] \in {"idle", "wait"}
    /\ cpc' = [cpc EXCEPT ![c] = "done"]
    /\ cliOpen' = [cliOpen EXCEPT ![c] = FALSE]
    /\ UNCHANGED <<cmac, ccalls, cur, ret, nvars, svars, evars, avars, hvars, xvars>>

(***************************************************************************)
(* IpcServer.mainLoop                                                      *)
(***************************************************************************)
\* server.listener.Accept() and the start of the reader goroutine
Accept(c) ==
    /\ serverAlive
    /\ rpc[c] = "none"
    /\ cpc[c] # "init"
    /\ rpc' = [rpc EXCEPT ![c] = "read"]
    /\ UNCHANGED <<cvars, nvars, rcall, rerr, srvOpen, calls, callsAvailable, callsMutex,
                   serverAlive, evars, avars, hvars, xvars>>

\* the reader leaves its loop: deferred conn.Close()
ReaderEnds(c) ==
    /\ rpc' = [rpc EXCEPT ![c] = "closed"]
    /\ srvOpen' = [srvOpen EXCEPT ![c] = FALSE]

\* the reader starts the next iteration of its loop
ReaderContinues(c) ==
    /\ rpc' = [rpc EXCEPT ![c] = "read"]
    /\ srvOpen' = srvOpen

\* conn.Write(reply) by the reader, answering the client's call number n:
\* wrote tells whether err == nil
ServerWrite(c, reply, n, wrote) ==
    IF Healthy(c)
    THEN wrote /\ s2c' = [s2c EXCEPT ![c] = Append(@, [data |-> reply, call |-> n])]
    ELSE s2c' = s2c

encodedOK == Marshal([MsgType |-> IPC_MSG_TYPE_OK, MacAddress |-> getMacAddress(ServerMachine), Args |-> <<>>])
encodedCLOSE == Marshal([MsgType |-> IPC_MSG_TYPE_CLOSE_CONN, MacAddress |-> getMacAddress(ServerMachine), Args |-> <<>>])

\* the identity check left out
MacRejectedNever(funcCall) == FALSE

\* if funcCall.MacAddress != server.mac
MacRejected(funcCall) == funcCall.MacAddress # getMacAddress(ServerMachine)

\* one iteration of the reader's loop, from conn.Read to the switch
ReaderIteration(c) ==
    /\ serverAlive
    /\ rpc[c] = "read"
    /\ LET readErr == broken[c] \/ c2s[c] = <<>>
           data == IF readErr THEN Garbage ELSE Head(c2s[c]).data
           funcCall == Unmarshal(data)
       IN  \* the read blocks while the connection is open and nothing arrived
           /\ readErr => (broken[c] \/ ~cliOpen[c])
           /\ c2s' = [c2s EXCEPT ![c] = IF readErr THEN @ ELSE Tail(@)]
           /\ IF readErr THEN
                 \* Failed to read client data: continue
                 /\ rerr' = [rerr EXCEPT ![c] = "read"]
                 /\ ReaderContinues(c)
                 /\ UNCHANGED <<s2c, rcall>>
              ELSE IF UnmarshalErr(data) THEN
                 \* Failed to decode client data: continue
                 /\ rerr' = [rerr EXCEPT ![c] = "decode"]
                 /\ ReaderContinues(c)
                 /\ UNCHANGED <<s2c, rcall>>
              ELSE IF MacRejected(funcCall) THEN
                 \* Signal Rejected: break leaves the for loop
                 /\ rerr' = [rerr EXCEPT ![c] = "none"]
                 /\ rcall' = [rcall EXCEPT ![c] = funcCall]
                 /\ ReaderEnds(c)
                 /\ UNCHANGED s2c
              ELSE IF funcCall.MsgType = IPC_MSG_TYPE_CLOSE_CONN THEN
                 \E wrote \in BOOLEAN :
                    /\ ServerWrite(c, encodedCLOSE, Head(c2s[c]).call, wrote)
                    /\ rcall' = [rcall EXCEPT ![c] = funcCall]
                    /\ IF wrote THEN
                          \* return
                          /\ rerr' = [rerr EXCEPT ![c] = "none"]
                          /\ ReaderEnds(c)
                       ELSE
                          \* Failed to send response: break leaves the switch only
                          /\ rerr' = [rerr EXCEPT ![c] = "write"]
                          /\ ReaderContinues(c)
              ELSE
                 \* default: server.appendNewCall(funcCall)
                 /\ rerr' = [rerr EXCEPT ![c] = "none"]
                 /\ rcall' = [rcall EXCEPT ![c] = funcCall]
                 /\ rpc' = [rpc EXCEPT ![c] = "lock"]
                 /\ UNCHANGED <<s2c, srvOpen>>
    /\ rcallOf' = [rcallOf EXCEPT ![c] =
                       IF broken[c] \/ c2s[c] = <<>> \/ UnmarshalErr(Head(c2s[c]).data)
                       THEN @ ELSE Head(c2s[c]).call]
    /\ UNCHANGED <<cvars, broken, calls, callsAvailable, callsMutex, serverAlive,
                   evars, avars, appendedFor, nAppended, nConsumed, xvars>>

(***************************************************************************)
(* IpcServer.appendNewCall, as the reader goroutine runs it.               *)
(* A queued record carries, besides the IpcFuncCall, the connection it     *)
(* came from (src) and its number among that connection's records (seq).   *)
(***************************************************************************)
\* the result of append() dropped: the record is not stored
appendNewCallDropped(c) ==
    /\ serverAlive
    /\ rpc[c] = "lock"
    /\ callsMutex = "free"
    /\ callsMutex' = "reader"
    /\ rpc' = [rpc EXCEPT ![c] = "locked"]
    /\ UNCHANGED <<cvars, nvars, rcall, rerr, srvOpen, calls, callsAvailable, serverAlive, evars,
                   avars, hvars, xvars>>

\* the record put in front of the queue instead of behind it
appendNewCallFront(c) ==
    /\ serverAlive
    /\ rpc[c] = "lock"
    /\ callsMutex = "free"
    /\ callsMutex' = "reader"
    /\ calls' = <<[MsgType |-> rcall[c].MsgType, MacAddress |-> rcall[c].MacAddress,
                   Args |-> rcall[c].Args, src |-> c, seq |-> nAppended[c] + 1]>> \o calls
    /\ nAppended' = [nAppended EXCEPT ![c] = @ + 1]
    /\ appendedFor' = [appendedFor EXCEPT ![c] = IF rcallOf[c] = ccalls[c] THEN @ + 1 ELSE @]
    /\ rpc' = [rpc EXCEPT ![c] = "locked"]
    /\ UNCHANGED <<cvars, nvars, rcall, rerr, srvOpen, callsAvailable, serverAlive, evars, avars,
                   rcallOf, nConsumed, xvars>>

\* callsMutex.Lock(); calls = append(calls, call)
appendNewCall(c) ==
    /\ serverAlive
    /\ rpc[c] = "lock"
    /\ callsMutex = "free"
    /\ callsMutex' = "reader"
    /\ calls' = Append(calls, [MsgType |-> rcall[c].MsgType, MacAddress |-> rcall[c].MacAddress,
                               Args |-> rcall[c].Args, src |-> c, seq |-> nAppended[c] + 1])
    /\ nAppended' = [nAppended EXCEPT ![c] = @ + 1]
    /\ appendedFor' = [appendedFor EXCEPT ![c] = IF rcallOf[c] = ccalls[c] THEN @ + 1 ELSE @]
    /\ rpc' = [rpc EXCEPT ![c] = "locked"]
    /\ UNCHANGED <<cvars, nvars, rcall, rerr, srvOpen, callsAvailable, serverAlive, evars, avars,
                   rcallOf, nConsumed, xvars>>

\* the mutex released with the flag left as it was
appendNewCallReturnNoSet(c) ==
    /\ serverAlive
    /\ rpc[c] = "locked"
    /\ callsMutex' = "free"
    /\ rpc' = [rpc EXCEPT ![c] = "ack"]
    /\ UNCHANGED <<cvars, nvars, rcall, rerr, srvOpen, calls, callsAvailable, serverAlive, evars,
                   avars, hvars, xvars>>

\* callsAvailable.Set(true); deferred callsMutex.Unlock()
appendNewCallReturn(c) ==
    /\ serverAlive
    /\ rpc[c] = "locked"
    /\ callsAvailable' = TRUE
    /\ callsMutex' = "free"
    /\ rpc' = [rpc EXCEPT ![c] = "ack"]
    /\ UNCHANGED <<cvars, nvars, rcall, rerr, srvOpen, calls, serverAlive, evars, avars, hvars, xvars>>

\* conn.Write(encodedOK) after appendNewCall; the loop continues either way
WriteOK(c) ==
    /\ serverAlive
    /\ rpc[c] = "ack"
    /\ \E wrote \in BOOLEAN :
          /\ ServerWrite(c, encodedOK, rcallOf[c], wrote)
          /\ rerr' = [rerr EXCEPT ![c] = IF wrote THEN "none" ELSE "write"]
    /\ ReaderContinues(c)
    /\ UNCHANGED <<cvars, c2s, broken, rcall, calls, callsAvailable, callsMutex, serverAlive,
                   evars, avars, hvars, xvars>>

(***************************************************************************)
(* IpcServer.update                                                        *)
(***************************************************************************)
\* call.Args[0].(string) / call.Args[0].(float64) panics: index out of range
\* or failed type assertion
Panics(call) ==
    CASE call.MsgType = IPC_MSG_TYPE_OPEN_FILE ->
            Len(call.Args) = 0 \/ call.Args[1].k # "string"
      [] call.MsgType \in {IPC_MSG_TYPE_GOTO_LINE, IPC_MSG_TYPE_GOTO_COLUMN} ->
            Len(call.Args) = 0 \/ call.Args[1].k # "float64"
      [] OTHER -> FALSE

\* the operation one queued call is routed to
Route(call) ==
    CASE call.MsgType = IPC_MSG_TYPE_OPEN_FILE ->
            [op |-> "openFile", arg |-> call.Args[1].v, src |-> call.src, seq |-> call.seq]
      [] call.MsgType = IPC_MSG_TYPE_GOTO_LINE ->
            [op |-> "gotoLine", arg |-> call.Args[1].v, src |-> call.src, seq |-> call.seq]
      [] call.MsgType = IPC_MSG_TYPE_GOTO_COLUMN ->
            [op |-> "gotoColumn", arg |-> call.Args[1].v, src |-> call.src, seq |-> call.seq]
      [] OTHER ->
            \* Server received invalid signal
            [op |-> "invalid", arg |-> 0, src |-> call.src, seq |-> call.seq]

\* number of calls the range loop handles before one panics
Handled(q) ==
    IF \E i \in 1..Len(q) : Panics(q[i])
    THEN (CHOOSE i \in 1..Len(q) : Panics(q[i]) /\ \A j \in 1..(i - 1) : ~Panics(q[j])) - 1
    ELSE Len(q)

\* where the caller of UpdateHandler goes on: the refresh handler returns
\* into PollEvents, the tick returns to the select
UpdateReturn == IF inRefresh THEN "poll" ELSE "select"

\* update() entering its body whatever callsAvailable says
updateGetAlways ==
    /\ appPc = "get"
    /\ drainsInTick' = drainsInTick + 1
    /\ appPc' = "drain"
    /\ UNCHANGED <<cvars, nvars, svars, evars, inRefresh, refreshesInTick, hasServer, hvars, xvars>>

\* if server.callsAvailable.Get()
updateGet ==
    /\ appPc = "get"
    /\ drainsInTick' = drainsInTick + 1
    /\ appPc' = IF callsAvailable THEN "drain" ELSE UpdateReturn
    /\ UNCHANGED <<cvars, nvars, svars, evars, inRefresh, refreshesInTick, hasServer, hvars, xvars>>

\* the body of update() under callsMutex
update ==
    /\ appPc = "drain"
    /\ callsMutex = "free"
    /\ LET n == Handled(calls) IN
       /\ dispatched' = dispatched \o [i \in 1..n |-> Route(calls[i])]
       /\ nConsumed' = [c \in Conns |-> nConsumed[c] + Cardinality({i \in 1..n : calls[i].src = c})]
       /\ IF n < Len(calls) THEN
             \* the panic ends the process with the mutex held
             /\ serverAlive' = FALSE
             /\ appPc' = "crashed"
             /\ callsMutex' = "app"
             /\ UNCHANGED <<calls, callsAvailable, raised>>
          ELSE
             /\ calls' = <<>>
             /\ callsAvailable' = FALSE
             /\ raised' = raised + 1
             /\ callsMutex' = "free"
             /\ appPc' = UpdateReturn
             /\ UNCHANGED serverAlive
    /\ UNCHANGED <<cvars, nvars, rpc, rcall, rerr, srvOpen, inRefresh, refreshesInTick,
                   drainsInTick, hasServer, appendedFor, rcallOf, nAppended, xvars>>

(***************************************************************************)
(* MainLoop, EventHandler and UpdateHandler, as far as they reach the      *)
(* coordinator.                                                            *)
(***************************************************************************)
\* case tick := <-Editor.ticker.C: ... Editor.window.PollEvents()
Tick ==
    /\ appPc = "select"
    /\ appPc' = "poll"
    /\ refreshesInTick' = 0
    /\ drainsInTick' = 0
    /\ inRefresh' = FALSE
    /\ dispatched' = <<>>
    /\ raised' = 0
    /\ UNCHANGED <<cvars, nvars, svars, hasServer, hvars, xvars>>

\* the refresh event handled without the additional UpdateHandler(0)
EventHandlerRefreshNoUpdate ==
    /\ appPc = "poll"
    /\ refreshesInTick < MaxRefresh
    /\ refreshesInTick' = refreshesInTick + 1
    /\ UNCHANGED <<cvars, nvars, svars, evars, appPc, inRefresh, drainsInTick, hasServer, hvars, xvars>>

\* EventHandler(WindowEventRefresh): the resize handling, then UpdateHandler(0)
EventHandlerRefresh ==
    /\ appPc = "poll"
    /\ refreshesInTick < MaxRefresh
    /\ refreshesInTick' = refreshesInTick + 1
    /\ inRefresh' = hasServer
    /\ appPc' = IF hasServer THEN "get" ELSE "poll"
    /\ UNCHANGED <<cvars, nvars, svars, evars, drainsInTick, hasServer, hvars, xvars>>

\* PollEvents returns; UpdateHandler(float32(delta)) reaches
\* if Editor.server != nil { Editor.server.Update() }
UpdateHandler ==
    /\ appPc = "poll"
    /\ inRefresh' = FALSE
    /\ appPc' = IF hasServer THEN "get" ELSE "select"
    /\ UNCHANGED <<cvars, nvars, svars, evars, refreshesInTick, drainsInTick, hasServer, hvars, xvars>>

\* the steps of the application thread
AppThread == Tick \/ EventHandlerRefresh \/ UpdateHandler \/ updateGet \/ update

\* the steps of the server's goroutines for connection c
Server(c) ==
    \/ Accept(c)
    \/ ReaderIteration(c)
    \/ appendNewCall(c)
    \/ appendNewCallReturn(c)
    \/ WriteOK(c)

(***************************************************************************)
(* Spec: one client process, on any machine, issuing any of CallInputs     *)
(* over a transport that may fail, against the running server.             *)
(***************************************************************************)
Next ==
    \/ \E m \in Machines : CreateClient(1, m)
    \/ ConnBreak(1)
    \/ \E in \in CallInputs : CallWrite(1, in[1], in[2], MaxCalls)
    \/ CallRead(1)
    \/ ClientExit(1)
    \/ Server(1)
    \/ AppThread

Spec == Init /\ [][Next]_vars

(***************************************************************************)
(* SpecQueue: the client processes of this machine as concurrent producers *)
(* of the CallQueue, and the application thread draining it.               *)
(***************************************************************************)
QueueInputs ==
    {<<IPC_MSG_TYPE_OPEN_FILE, <<GoString(ShortPath)>>>>}

NextQueue ==
    \/ \E c \in Conns : CreateClient(c, ServerMachine)
    \/ \E c \in Conns, in \in QueueInputs : CallWrite(c, in[1], in[2], MaxQueued)
    \/ \E c \in Conns : CallRead(c)
    \/ \E c \in Conns : Server(c)
    \/ AppThread

SpecQueue == Init /\ [][NextQueue]_vars

(***************************************************************************)
(* SpecCall: one IpcClient.Call of a client of any identity, with any      *)
(* outcome of its write and of its read, and any reply from the peer.      *)
(***************************************************************************)
\* identities a client or a peer may have; 0 is getMacAddress() finding no
\* interface
PeerMacs == {0} \cup Machines

\* what one read of the client may return when it succeeds
PeerReplies ==
    {Garbage} \cup
    {Marshal([MsgType |-> t, MacAddress |-> m, Args |-> <<>>]) : t \in IpcMessageType, m \in PeerMacs}

InitCall ==
    /\ CoordInit
    /\ hasServer = TRUE
    /\ kcase \in [mac : PeerMacs, writeErr : BOOLEAN, readErr : BOOLEAN, resp : PeerReplies,
                  done : {FALSE}, ok : {FALSE}, close : {FALSE}]
    /\ ElectionInit
    /\ QuitInit
    /\ connectedViaTcp = FALSE
    /\ RestInit

\* client.Call(msgType, args...) from its entry to its return
Call ==
    /\ ~kcase.done
    /\ LET out == CallOutcome(kcase.mac, kcase.writeErr, kcase.readErr, kcase.resp)
       IN  kcase' = [kcase EXCEPT !.done = TRUE, !.ok = out.ok, !.close = out.close]
    /\ UNCHANGED <<cvars, nvars, svars, evars, avars, hvars, elvars, qvars, yvars, zvars>>

NextCall == Call

SpecCall == InitCall /\ [][NextCall]_vars

(***************************************************************************)
(* SpecElection: the processes started on one machine, each trying to      *)
(* become the server and, failing that, a client of the server.            *)
(***************************************************************************)
\* the process a dial or a failed bind meets
Holder == CHOOSE h \in listener : TRUE

\* net.Listen binding DEFAULT_ADDRESS although a listener holds it
CreateServerUnchecked(p) ==
    /\ epc[p] = "start"
    /\ listener' = listener \cup {p}
    /\ epc' = [epc EXCEPT ![p] = "server"]
    /\ UNCHANGED <<dialled, blockedBy, forwarded>>
    /\ UNCHANGED <<cvars, nvars, svars, evars, avars, hvars, kvars, qvars, yvars, zvars>>

\* CreateServer(): net.Listen("tcp", DEFAULT_ADDRESS) fails while another
\* process listens on the address
CreateServer(p) ==
    /\ epc[p] = "start"
    /\ IF listener = {}
       THEN /\ listener' = {p}
            /\ epc' = [epc EXCEPT ![p] = "server"]
            /\ UNCHANGED blockedBy
       ELSE /\ epc' = [epc EXCEPT ![p] = "bindfailed"]
            /\ blockedBy' = [blockedBy EXCEPT ![p] = Holder]
            /\ UNCHANGED listener
    /\ UNCHANGED <<dialled, forwarded>>
    /\ UNCHANGED <<cvars, nvars, svars, evars, avars, hvars, kvars, qvars, yvars, zvars>>

\* CreateClient() of a process whose bind failed: net.DialTimeout reaches
\* the process listening now, or returns an error when none listens
Dial(p) ==
    /\ epc[p] = "bindfailed"
    /\ IF listener # {}
       THEN /\ dialled' = [dialled EXCEPT ![p] = Holder]
            /\ epc' = [epc EXCEPT ![p] = "client"]
       ELSE /\ epc' = [epc EXCEPT ![p] = "dialfailed"]
            /\ UNCHANGED dialled
    /\ UNCHANGED <<listener, blockedBy, forwarded>>
    /\ UNCHANGED <<cvars, nvars, svars, evars, avars, hvars, kvars, qvars, yvars, zvars>>

\* the client forwards its request over its connection
Forward(p) ==
    /\ epc[p] = "client"
    /\ forwarded' = [forwarded EXCEPT ![p] = dialled[p]]
    /\ epc' = [epc EXCEPT ![p] = "forwarded"]
    /\ UNCHANGED <<listener, dialled, blockedBy>>
    /\ UNCHANGED <<cvars, nvars, svars, evars, avars, hvars, kvars, qvars, yvars, zvars>>

\* IpcServer.Close(): server.listener.Close()
ServerClose(p) ==
    /\ epc[p] = "server"
    /\ listener' = listener \ {p}
    /\ epc' = [epc EXCEPT ![p] = "closed"]
    /\ UNCHANGED <<dialled, blockedBy, forwarded>>
    /\ UNCHANGED <<cvars, nvars, svars, evars, avars, hvars, kvars, qvars, yvars, zvars>>

NextElection ==
    \/ \E p \in Procs : CreateServer(p)
    \/ \E p \in Procs : Dial(p)
    \/ \E p \in Procs : Forward(p)
    \/ \E p \in Procs : ServerClose(p)

SpecElection == Init /\ [][NextElection]_vars

(***************************************************************************)
(* SpecQuit: the Serve goroutine of the backend session, the window close  *)
(* handler and the select of MainLoop around the quit channel, with or     *)
(* without a coordinator server that no client has connected to.           *)
(***************************************************************************)
\* Editor.quitChan = make(chan bool, 1)
QuitCap == 1

InitQuit ==
    /\ CoordInit
    /\ hasServer \in BOOLEAN
    /\ CallIdle
    /\ ElectionInit
    /\ QuitInit
    /\ connectedViaTcp \in BOOLEAN
    /\ RestInit

\* proc.handle.Serve() returns: with an error the goroutine logs and
\* returns, without one it goes on to the send
ServeReturns(err) ==
    /\ spc = "serving"
    /\ spc' = IF err THEN "failed" ELSE "send"
    /\ UNCHANGED <<quitChan, quitSent, connectedViaTcp, closeEvents>>
    /\ UNCHANGED <<cvars, nvars, svars, evars, avars, hvars, kvars, elvars, yvars, zvars>>

\* singleton.quitRequested <- true in the goroutine: blocks while the
\* buffer is full
ServeSend ==
    /\ spc = "send"
    /\ quitChan < QuitCap
    /\ quitChan' = quitChan + 1
    /\ quitSent' = quitSent + 1
    /\ spc' = "closed"
    /\ UNCHANGED <<connectedViaTcp, closeEvents>>
    /\ UNCHANGED <<cvars, nvars, svars, evars, avars, hvars, kvars, elvars, yvars, zvars>>

\* EventHandler(WindowEventClose) on the application thread, inside
\* PollEvents
EventHandlerClose ==
    /\ appPc = "poll"
    /\ closeEvents < MaxClose
    /\ closeEvents' = closeEvents + 1
    /\ IF connectedViaTcp
       THEN \* disconnect(); Editor.quitChan <- true
            IF quitChan < QuitCap
            THEN /\ quitChan' = quitChan + 1
                 /\ quitSent' = quitSent + 1
                 /\ UNCHANGED appPc
            ELSE /\ appPc' = "send"
                 /\ UNCHANGED <<quitChan, quitSent>>
       ELSE \* KeepAlive(); go execCommand("qa")
            UNCHANGED <<appPc, quitChan, quitSent>>
    /\ UNCHANGED <<spc, connectedViaTcp>>
    /\ UNCHANGED <<inRefresh, refreshesInTick, drainsInTick, hasServer>>
    /\ UNCHANGED <<cvars, nvars, svars, evars, hvars, kvars, elvars, yvars, zvars>>

\* case <-Editor.quitChan: run = false
QuitReceived ==
    /\ appPc = "select"
    /\ quitChan > 0
    /\ quitChan' = quitChan - 1
    /\ appPc' = "stopped"
    /\ UNCHANGED <<spc, quitSent, connectedViaTcp, closeEvents>>
    /\ UNCHANGED <<inRefresh, refreshesInTick, drainsInTick, hasServer>>
    /\ UNCHANGED <<cvars, nvars, svars, evars, hvars, kvars, elvars, yvars, zvars>>

NextQuit ==
    \/ \E err \in BOOLEAN : ServeReturns(err)
    \/ ServeSend
    \/ Tick
    \/ EventHandlerRefresh
    \/ EventHandlerClose
    \/ UpdateHandler
    \/ updateGet
    \/ QuitReceived

SpecQuit == InitQuit /\ [][NextQuit]_vars

(***************************************************************************)
(* SpecKey: KeyEventHandler and CharEventHandler for one physical key      *)
(* event: the key callback first, then the character callback when the     *)
(* press produces text.                                                    *)
(***************************************************************************)
\* the coordinator, the election and the quit event at rest
BaseInit ==
    /\ CoordInit
    /\ hasServer = TRUE
    /\ CallIdle
    /\ ElectionInit
    /\ QuitInit
    /\ connectedViaTcp = FALSE

\* keys with an entry in SpecialKeys, each named here by its entry
TableKeys == {"ESC", "CR", "Space", "F11"}
\* keys outside the table that produce text; "world" is one the platform
\* has no name for
TextKeys == {"a", "+", "-", ","}
Keys == TableKeys \cup TextKeys \cup {"world"}
Actions == {"Press", "Repeat", "Release"}

\* name, ok := SpecialKeys[key]
SpecialKeys(key) == key
\* glfw.GetKeyName(key, scancode)
GetKeyName(key) == IF key \in TextKeys THEN key ELSE ""

\* InitializeInputEvents: the default bindings
zoomInKey == "<C-+>"
zoomOutKey == "<C-->"
toggleFullscreenKey == "<F11>"

\* KeyEventHandler from if action != glfw.Release to keycode += keyname + ">":
\* return tells whether the handler returned before building the keycode
KeyCode(key, ctrl, shift, alt, super) ==
    LET ok == key \in TableKeys
        keyname == IF ok THEN SpecialKeys(key)
                   ELSE IF ctrl THEN GetKeyName(key)
                   ELSE ""
    IN  [return |-> ~ok /\ (shift \/ alt \/ super \/ (ctrl /\ GetKeyName(key) = "")),
         keycode |-> "<" \o (IF ctrl THEN "C-" ELSE "") \o (IF shift THEN "S-" ELSE "")
                         \o (IF alt THEN "A-" ELSE "") \o (IF super THEN "D-" ELSE "")
                         \o keyname \o ">"]

\* the character the platform reports for the press, "" when it reports none
CharOf(key, action, ctrl, shift, alt, super) ==
    IF action = "Release" \/ ctrl \/ alt \/ super THEN ""
    ELSE CASE key = "Space" -> " "
           [] key = "a" -> IF shift THEN "A" ELSE "a"
           [] key = "," -> IF shift THEN "<" ELSE ","
           [] key \in {"+", "-"} -> key
           [] OTHER -> ""

InitKey ==
    /\ BaseInit
    /\ GpuInit
    /\ OptIdle
    /\ VerIdle
    /\ InpInit
    /\ shut = <<>>
    /\ MoreInit
    /\ \E key \in Keys, action \in Actions, ctrl, shift, alt, super \in BOOLEAN,
          popup, visible \in BOOLEAN :
          /\ visible => popup
          /\ kin = [key |-> key, action |-> action, ctrl |-> ctrl, shift |-> shift, alt |-> alt,
                    super |-> super, menuVisible |-> visible, menuWas |-> visible,
                    popupMenuEnabled |-> popup, pc |-> "key", keycode |-> "",
                    keySent |-> <<>>, charSent |-> <<>>, binding |-> "none"]

\* KeyEventHandler for a key that is no modifier key
KeyEventHandler ==
    /\ kin.pc = "key"
    /\ LET k == KeyCode(kin.key, kin.ctrl, kin.shift, kin.alt, kin.super) IN
       IF kin.action = "Release" \/ k.return
       THEN kin' = [kin EXCEPT !.pc = "char"]
       ELSE CASE k.keycode = zoomInKey ->
                   \* IncreaseFontSize(); return
                   kin' = [kin EXCEPT !.pc = "char", !.keycode = k.keycode, !.binding = "zoomIn"]
              [] k.keycode = zoomOutKey ->
                   kin' = [kin EXCEPT !.pc = "char", !.keycode = k.keycode, !.binding = "zoomOut"]
              [] k.keycode = toggleFullscreenKey ->
                   kin' = [kin EXCEPT !.pc = "char", !.keycode = k.keycode,
                                      !.binding = "toggleFullscreen"]
              [] OTHER ->
                   \* case "<ESC>": if popupMenuEnabled { popupMenu.Hide() }; break
                   \* then EditorSingleton.nvim.Input(keycode)
                   kin' = [kin EXCEPT !.pc = "char", !.keycode = k.keycode,
                                      !.menuVisible = IF k.keycode = "<ESC>" /\ kin.popupMenuEnabled
                                                      THEN FALSE ELSE @,
                                      !.keySent = Append(@, k.keycode)]
    /\ UNCHANGED <<coordvars, gpu, opt, ver, inp, shut>>

\* every character forwarded as it is
CharInputsLiteral(c) == <<c>>
\* CharEventHandler's switch: the Input calls made for the character c
CharInputs(c) == IF c = " " THEN <<>>
                 ELSE IF c = "<" THEN <<"<LT>">>
                 ELSE <<c>>

\* CharEventHandler for the character of the same press
CharEventHandler ==
    /\ kin.pc = "char"
    /\ LET c == CharOf(kin.key, kin.action, kin.ctrl, kin.shift, kin.alt, kin.super) IN
       /\ c # ""
       /\ kin' = [kin EXCEPT !.pc = "done", !.charSent = @ \o CharInputs(c)]
    /\ UNCHANGED <<coordvars, gpu, opt, ver, inp, shut>>

NextKey == KeyEventHandler \/ CharEventHandler

SpecKey == InitKey /\ [][NextKey]_vars

(***************************************************************************)
(* SpecGpu: the vertex and the index buffer under any sequence of updates  *)
(* and renders.                                                            *)
(***************************************************************************)
\* the update that reallocates but does not record the new length
BufferUpdateNoStore(storedLen, n) ==
    IF storedLen # n
    THEN [op |-> "BufferData", len |-> storedLen]
    ELSE [op |-> "BufferSubData", len |-> storedLen]

\* if rgl_*_buffer_len != len(data) { gl.BufferData; rgl_*_buffer_len =
\* len(data) } else { gl.BufferSubData }
BufferUpdate(storedLen, n) ==
    IF storedLen # n
    THEN [op |-> "BufferData", len |-> n]
    ELSE [op |-> "BufferSubData", len |-> storedLen]

RGL_UpdateVertexData(n) ==
    /\ gpu.n < MaxUpdates
    /\ LET u == BufferUpdate(gpu.vlen, n) IN
       gpu' = [gpu EXCEPT !.vlen = u.len, !.vop = u.op, !.vprev = gpu.vlast, !.vlast = n,
                          !.n = @ + 1]
    /\ UNCHANGED <<coordvars, kin, opt, ver, inp, shut>>

RGL_UpdateElementData(n) ==
    /\ gpu.n < MaxUpdates
    /\ LET u == BufferUpdate(gpu.elen, n) IN
       gpu' = [gpu EXCEPT !.elen = u.len, !.eop = u.op, !.eprev = gpu.elast, !.elast = n,
                          !.n = @ + 1]
    /\ UNCHANGED <<coordvars, kin, opt, ver, inp, shut>>

\* gl.DrawElements(gl.TRIANGLES, int32(rgl_element_buffer_len), ...)
RGL_Render ==
    /\ gpu.n < MaxUpdates
    /\ gpu' = [gpu EXCEPT !.drawn = gpu.elen, !.n = @ + 1]
    /\ UNCHANGED <<coordvars, kin, opt, ver, inp, shut>>

NextGpu ==
    \/ \E n \in 0..MaxCount : RGL_UpdateVertexData(n)
    \/ \E n \in 0..MaxCount : RGL_UpdateElementData(n)
    \/ RGL_Render

SpecGpu == Init /\ [][NextGpu]_vars

(***************************************************************************)
(* SpecVersion: requestApiInfo against a backend of any version.           *)
(***************************************************************************)
\* the minor number tested by requestApiInfo
MinMinor == 4

InitVersion ==
    /\ BaseInit
    /\ KeyIdle
    /\ GpuInit
    /\ OptIdle
    /\ InpInit
    /\ shut = <<>>
    /\ MoreInit
    /\ ver \in [major : 0..MaxMajor, minor : 0..MaxMinor, patch : 0..MaxPatch, err : BOOLEAN,
                done : {FALSE}, fatal : {FALSE}]

\* if vMinor < 4 { logMessage(LOG_LEVEL_FATAL, ...) }
VersionFatal(vMajor, vMinor, vPatch) == vMinor < MinMinor

\* requestApiInfo: a failed APIInfo() is logged as an error and ends the
\* function before the version is looked at
requestApiInfo ==
    /\ ~ver.done
    /\ ver' = [ver EXCEPT !.done = TRUE,
                          !.fatal = ~ver.err /\ VersionFatal(ver.major, ver.minor, ver.patch)]
    /\ UNCHANGED <<coordvars, kin, gpu, opt, inp, shut>>

NextVersion == requestApiInfo

SpecVersion == InitVersion /\ [][NextVersion]_vars

(***************************************************************************)
(* Properties of the coordinator.                                          *)
(***************************************************************************)
ServerMac == getMacAddress(ServerMachine)

\* C1: a Call(OPEN_FILE, path) of a client with the server's identity that
\* returned success has had exactly one record appended, an OPEN_FILE
\* record with that identity and those arguments; the record is appended
\* before the OK acknowledgement is written; and on a working connection
\* the call returns success.
C1_OpenFileQueuedBeforeAck ==
    \A c \in Conns :
        (cmac[c] = ServerMac /\ cur[c].MsgType = IPC_MSG_TYPE_OPEN_FILE) =>
            /\ ret[c] = "true" =>
                  /\ appendedFor[c] = 1
                  /\ rcall[c].MsgType = IPC_MSG_TYPE_OPEN_FILE
                  /\ rcall[c].MacAddress = ServerMac
                  /\ rcall[c].Args = cur[c].Args
            /\ \A i \in 1..Len(s2c[c]) :
                  (s2c[c][i].call = ccalls[c] /\ s2c[c][i].data.MsgType = IPC_MSG_TYPE_OK)
                      => appendedFor[c] = 1
            /\ (rpc[c] = "ack" /\ rcallOf[c] = ccalls[c]) => appendedFor[c] = 1
            /\ (cpc[c] = "idle" /\ Healthy(c) /\ EncodedSize(cur[c]) <= DEFAULT_BUFFER_SIZE)
                  => ret[c] = "true"

\* a client of the server's machine saw Call(OPEN_FILE, path) succeed
C1_Witness ==
    \E c \in Conns :
        /\ cmac[c] = ServerMac
        /\ cur[c].MsgType = IPC_MSG_TYPE_OPEN_FILE
        /\ cur[c].Args = <<GoString(ShortPath)>>
        /\ cpc[c] = "idle"
        /\ ret[c] = "true"
        /\ appendedFor[c] = 1

\* C2: a client whose identity differs from the server's gets no reply and
\* no record in the CallQueue, whatever the message type; the reader that
\* decoded its message has ended and closed the connection; a Call that
\* returned has returned failure.
C2_ForgedIdentityRejected ==
    \A c \in Conns :
        (cpc[c] # "init" /\ cmac[c] # ServerMac) =>
            /\ s2c[c] = <<>>
            /\ nAppended[c] = 0
            /\ \A i \in 1..Len(calls) : calls[i].src # c /\ calls[i].MacAddress = ServerMac
            /\ rpc[c] \in {"none", "read", "closed"}
            /\ rcall[c] # NoCall => (rpc[c] = "closed" /\ ~srvOpen[c])
            /\ ret[c] # "true"
            /\ (cpc[c] = "idle" /\ ccalls[c] > 0) => ret[c] = "false"

\* a forged message was decoded and rejected, and the Call returned failure
C2_Witness ==
    \E c \in Conns :
        /\ cmac[c] # ServerMac
        /\ rcall[c] # NoCall
        /\ rcall[c].MsgType = IPC_MSG_TYPE_OPEN_FILE
        /\ rpc[c] = "closed"
        /\ cpc[c] = "idle"
        /\ ret[c] = "false"

\* the records of connection c in a queue, in queue order
FromConn(q, c) == SelectSeq(q, LAMBDA r : r.src = c)

C4_OneDrainPerTick == drainsInTick <= 1

\* C4 as amended: the queue is emptied only by update() on the application
\* thread, update() is entered only from UpdateHandler inside a tick, and a
\* tick that ends has called it once plus once per refresh event handled.
C4_DrainPerUpdateHandler ==
    [][/\ (appPc # "select" /\ appPc' = "select") => drainsInTick' = 1 + refreshesInTick'
       /\ Len(calls') < Len(calls) => (appPc = "drain" /\ appPc' # "drain")
       /\ drainsInTick' > drainsInTick => appPc = "get"]_vars

\* a tick with a refresh event ended after two drains that found calls
C4_Witness ==
    /\ appPc = "select"
    /\ refreshesInTick = 1
    /\ drainsInTick = 2
    /\ raised = 2

\* C5: a reader that met a read or write failure on its connection has
\* ended and closed that connection.
C5_FailureDropsConnection ==
    \A c \in Conns : rerr[c] \in {"read", "write"} => (rpc[c] = "closed" /\ ~srvOpen[c])

\* C6: after an undecodable message the connection is dropped: no reply,
\* nothing appended, the reader ended and the connection closed.
C6_MalformedDropsConnection ==
    \A c \in Conns :
        rerr[c] = "decode" =>
            (s2c[c] = <<>> /\ appendedFor[c] = 0 /\ rpc[c] = "closed" /\ ~srvOpen[c])

\* C7: once a CLOSE with the server's identity was decoded, nothing was
\* appended for it and the reader has ended and closed the connection,
\* also when writing the CLOSE reply failed.
C7_CloseEndsReader ==
    \A c \in Conns :
        (rcall[c].MsgType = IPC_MSG_TYPE_CLOSE_CONN /\ ~MacRejected(rcall[c])) =>
            (rpc[c] = "closed" /\ ~srvOpen[c])

\* C8: Call returns true exactly when the write succeeded, a reply was read
\* and decoded, the reply carries the client's own identity and its type is
\* OK or CLOSE; it closes the connection exactly on such a CLOSE reply.
C8_CallSuccessIff ==
    kcase.done =>
        LET accepted == /\ ~kcase.writeErr
                        /\ ~kcase.readErr
                        /\ kcase.resp.ok
                        /\ kcase.resp.MacAddress = kcase.mac
        IN  /\ kcase.ok <=> (accepted /\ kcase.resp.MsgType \in {IPC_MSG_TYPE_OK, IPC_MSG_TYPE_CLOSE_CONN})
            /\ kcase.close <=> (accepted /\ kcase.resp.MsgType = IPC_MSG_TYPE_CLOSE_CONN)

\* a Call that read a CLOSE reply of its own identity returned true and
\* closed the connection
C8_Witness ==
    /\ kcase.done
    /\ kcase.resp.ok
    /\ kcase.resp.MsgType = IPC_MSG_TYPE_CLOSE_CONN
    /\ kcase.ok
    /\ kcase.close

\* C9 as claimed: at most one process holds the listener, and a process
\* whose bind failed becomes a client of the server that held the address.
C9_BindFailersForwardToServer ==
    /\ Cardinality(listener) <= 1
    /\ \A p \in Procs :
          blockedBy[p] # 0 =>
              /\ epc[p] # "dialfailed"
              /\ dialled[p] # 0 => dialled[p] = blockedBy[p]

\* C9 as amended: at most one process holds the listener, a process is the
\* server exactly while it holds it, a bind fails only against a process
\* that bound, and a process whose bind failed forwards only over a
\* connection its dial got, to the process that held the listener then; a
\* dial that met no listener forwards nothing.
C9_ElectionAtMostOneServer ==
    /\ Cardinality(listener) <= 1
    /\ \A p \in Procs :
          /\ (p \in listener) <=> (epc[p] = "server")
          /\ blockedBy[p] # 0 => (blockedBy[p] # p /\ epc[blockedBy[p]] \in {"server", "closed"})
          /\ dialled[p] # 0 => (dialled[p] # p /\ blockedBy[p] # 0
                                  /\ epc[dialled[p]] \in {"server", "closed"})
          /\ forwarded[p] # 0 => forwarded[p] = dialled[p]
          /\ epc[p] = "dialfailed" => (dialled[p] = 0 /\ forwarded[p] = 0)
          /\ epc[p] = "forwarded" => forwarded[p] # 0

\* a process whose bind failed against one server forwarded its request to
\* the server elected after that one closed its listener
C9_Witness ==
    \E p \in Procs :
        /\ epc[p] = "forwarded"
        /\ forwarded[p] # blockedBy[p]
        /\ epc[blockedBy[p]] = "closed"
        /\ epc[forwarded[p]] = "server"

\* C10: once Serve has returned, cleanly or with an error, the quit event
\* has been sent; it is sent at most once; and neither the application
\* thread nor the Serve goroutine is stopped at a send on a full channel.
C10_QuitSignalledOnce ==
    /\ spc \in {"closed", "failed"} => quitSent >= 1
    /\ quitSent <= 1
    /\ appPc # "send"
    /\ ~(spc = "send" /\ quitChan = QuitCap)

(***************************************************************************)
(* Properties of the input handlers.                                       *)
(***************************************************************************)
\* C11: the key path and the character path never both forward an input
\* for one press, and a press of a key outside the named-key table with no
\* modifier or with Shift only forwards nothing on the key path.
C11_OnePathPerPress ==
    /\ ~(kin.keySent # <<>> /\ kin.charSent # <<>>)
    /\ (kin.pc \in {"char", "done"} /\ kin.key \notin TableKeys
          /\ ~kin.ctrl /\ ~kin.alt /\ ~kin.super) => kin.keySent = <<>>

\* C12: the escape token is not forwarded and the menu is closed when the
\* menu was visible; it is forwarded and the menu is as before when not.
C12_EscapeConsumedIffMenuVisible ==
    (kin.pc \in {"char", "done"} /\ kin.keycode = "<ESC>") =>
        IF kin.menuWas
        THEN kin.keySent = <<>> /\ ~kin.menuVisible
        ELSE kin.keySent = <<"<ESC>">> /\ kin.menuVisible = kin.menuWas

\* the token of the reference for one key event, "" when it is dropped
RefKeyToken(key, action, ctrl, shift, alt, super) ==
    LET prefixes == (IF ctrl THEN "C-" ELSE "") \o (IF shift THEN "S-" ELSE "")
                    \o (IF alt THEN "A-" ELSE "") \o (IF super THEN "D-" ELSE "")
    IN  IF action = "Release" THEN ""
        ELSE IF key \in TableKeys THEN "<" \o prefixes \o key \o ">"
        ELSE IF shift \/ alt \/ super THEN ""
        ELSE IF ctrl /\ GetKeyName(key) # "" THEN "<C-" \o GetKeyName(key) \o ">"
        ELSE ""

\* C13: the keycode the key path built for an event is the token of the
\* reference, and nothing is built when the reference drops the event.
C13_KeyTokenIsReference ==
    kin.pc \in {"char", "done"} =>
        kin.keycode = RefKeyToken(kin.key, kin.action, kin.ctrl, kin.shift, kin.alt, kin.super)

(***************************************************************************)
(* Properties of the renderer.                                             *)
(***************************************************************************)
\* C14: for the vertex and for the index buffer, an update that follows an
\* upload reallocates (BufferData) exactly when its element count differs
\* from the count of that upload and otherwise uploads in place
\* (BufferSubData); the recorded length is the count of the last upload.
C14_ReallocIffCountDiffers ==
    /\ gpu.vprev # -1 => (gpu.vop = "BufferData" <=> gpu.vlast # gpu.vprev)
    /\ gpu.vprev # -1 => (gpu.vop = "BufferSubData" <=> gpu.vlast = gpu.vprev)
    /\ gpu.eprev # -1 => (gpu.eop = "BufferData" <=> gpu.elast # gpu.eprev)
    /\ gpu.eprev # -1 => (gpu.eop = "BufferSubData" <=> gpu.elast = gpu.eprev)
    /\ gpu.vlast # -1 => gpu.vlen = gpu.vlast
    /\ gpu.elast # -1 => gpu.elen = gpu.elast

\* the vertex buffer was updated twice with the same count, without a
\* reallocation, after an update with another count
C14_Witness ==
    /\ gpu.n = 3
    /\ gpu.vprev = 2
    /\ gpu.vlast = 2
    /\ gpu.vop = "BufferSubData"
    /\ gpu.eop = "none"

(***************************************************************************)
(* Properties of the backend session.                                      *)
(***************************************************************************)
\* C16: the handshake that got the backend's version is fatal exactly when
\* the version (major, minor, patch) is below 0.4.0; every version with
\* major >= 1 is accepted.
C16_FatalIffBelowMinimum ==
    (ver.done /\ ~ver.err) =>
        (ver.fatal <=> (ver.major = 0 /\ ver.minor < MinMinor))

(***************************************************************************)
(* Properties of the drains.                                               *)
(***************************************************************************)
\* the operation the claim names for a message type
MatchingOp(MsgType) ==
    CASE MsgType = IPC_MSG_TYPE_OPEN_FILE -> "openFile"
      [] MsgType = IPC_MSG_TYPE_GOTO_LINE -> "gotoLine"
      [] MsgType = IPC_MSG_TYPE_GOTO_COLUMN -> "gotoColumn"
      [] OTHER -> "invalid"

\* C17: a non-empty drain of the CallQueue routes every queued call, in queue
\* order, to the operation matching its type, then leaves the queue empty
\* with the pending flag cleared, and raises the window once, after all calls
\* were dispatched.
C17_DrainRoutesAll ==
    [][(appPc = "drain" /\ appPc' # "drain") =>
          /\ Len(dispatched') = Len(dispatched) + Len(calls)
          /\ \A i \in 1..Len(calls) :
                /\ dispatched'[Len(dispatched) + i].op = MatchingOp(calls[i].MsgType)
                /\ dispatched'[Len(dispatched) + i].seq = calls[i].seq
                /\ dispatched'[Len(dispatched) + i].src = calls[i].src
          /\ calls' = <<>>
          /\ ~callsAvailable'
          /\ raised' = raised + 1
          /\ appPc' = UpdateReturn]_vars

(***************************************************************************)
(* SpecDrain: the two drains of a tick, the option changes queued by the   *)
(* NeorayOptionSet handler and the CallQueue filled by one client.         *)
(***************************************************************************)
\* OPTION_TARGET_TPS, OPTION_CONTEXT_MENU, OPTION_KEY_ZOOMIN
OPTION_TARGET_TPS == "TargetTPS"
OPTION_CONTEXT_MENU == "ContextMenuOn"
OPTION_KEY_ZOOMIN == "KeyZoomIn"
\* names the handler may be called with; the last is no option
OptionNames == {OPTION_TARGET_TPS, OPTION_CONTEXT_MENU, OPTION_KEY_ZOOMIN, "Bogus"}
\* values the handler may be called with
OptionValues == {"30", "0", "true"}

\* strconv.Atoi on the values above
Atoi(s) ==
    CASE s = "30" -> [ok |-> TRUE, v |-> 30]
      [] s = "0" -> [ok |-> TRUE, v |-> 0]
      [] OTHER -> [ok |-> FALSE, v |-> 0]

\* strconv.ParseBool: 1, t, T, TRUE, true, True; 0, f, F, FALSE, false, False
ParseBool(s) ==
    CASE s \in {"1", "t", "T", "TRUE", "true", "True"} -> [ok |-> TRUE, v |-> TRUE]
      [] s \in {"0", "f", "F", "FALSE", "false", "False"} -> [ok |-> TRUE, v |-> FALSE]
      [] OTHER -> [ok |-> FALSE, v |-> FALSE]

\* singleton.mainLoopRunning
mainLoopRunning == appPc \notin {"stopped", "crashed"}

\* ResetTicker: time.Second / time.Duration(targetTPS) panics on a division
\* by zero, and the ticker panics on a non-positive interval
ResetTickerPanics(targetTPS) == targetTPS <= 0

\* one iteration of the range loop of checkOptions; o has the Options, the
\* resetTicker calls made and whether one has panicked
ApplyOption(o, e) ==
    CASE e.name = OPTION_TARGET_TPS ->
            LET r == Atoi(e.value) IN
            IF ~r.ok \/ o.options.targetTPS = r.v THEN o
            ELSE [options |-> [o.options EXCEPT !.targetTPS = r.v],
                  resets |-> IF mainLoopRunning THEN o.resets + 1 ELSE o.resets,
                  panic |-> mainLoopRunning /\ ResetTickerPanics(r.v)]
      [] e.name = OPTION_CONTEXT_MENU ->
            LET r == ParseBool(e.value) IN
            IF ~r.ok THEN o
            ELSE [o EXCEPT !.options.contextMenuEnabled = r.v]
      [] e.name = OPTION_KEY_ZOOMIN ->
            [o EXCEPT !.options.keyIncreaseFontSize = e.value]
      [] OTHER -> o

\* for _, opt := range proc.optionStack, until an iteration panics
RECURSIVE RangeOptions(_, _)
RangeOptions(o, stack) ==
    IF stack = <<>> \/ o.panic THEN o
    ELSE RangeOptions(ApplyOption(o, Head(stack)), Tail(stack))

\* checkOptions applied to the record o of the option state
checkOptions(o) ==
    IF o.changed THEN
        LET r == RangeOptions([options |-> o.options, resets |-> 0, panic |-> FALSE], o.stack) IN
        [o EXCEPT !.options = r.options, !.resets = r.resets,
                  !.last = IF r.panic THEN "panic" ELSE "drained",
                  !.stack = IF r.panic THEN @ ELSE <<>>,
                  !.changed = IF r.panic THEN @ ELSE FALSE]
    ELSE [o EXCEPT !.last = "skipped", !.resets = 0]

\* the NeorayOptionSet handler, called by the backend's notification
\* goroutine: arguments that are not strings are logged and dropped
NeorayOptionSet(name, value, ok) ==
    /\ opt.sets < MaxOptions
    /\ appPc # "crashed"
    /\ opt' = IF ok
              THEN [opt EXCEPT !.stack = Append(@, [name |-> name, value |-> value]),
                               !.changed = TRUE, !.sets = @ + 1]
              ELSE [opt EXCEPT !.sets = @ + 1]
    /\ UNCHANGED <<coordvars, kin, gpu, ver, inp, shut>>

\* UpdateHandler after PollEvents returned: Editor.nvim.Update(), which is
\* checkOptions, then on to Editor.server.Update()
NvimUpdate ==
    /\ appPc = "poll"
    /\ opt' = checkOptions(opt)
    /\ inRefresh' = FALSE
    /\ IF opt'.last = "panic"
       THEN appPc' = "crashed" /\ serverAlive' = FALSE
       ELSE appPc' = (IF hasServer THEN "get" ELSE "select") /\ UNCHANGED serverAlive
    /\ UNCHANGED <<cvars, nvars, rpc, rcall, rerr, srvOpen, calls, callsAvailable, callsMutex,
                   evars, refreshesInTick, drainsInTick, hasServer, hvars, kvars, elvars, qvars,
                   kin, gpu, ver, inp, shut, zvars>>

NextDrain ==
    \/ CreateClient(1, ServerMachine)
    \/ \E in \in QueueInputs : CallWrite(1, in[1], in[2], MaxCalls)
    \/ CallRead(1)
    \/ Server(1)
    \/ \E name \in OptionNames, value \in OptionValues, ok \in BOOLEAN :
          NeorayOptionSet(name, value, ok)
    \/ Tick
    \/ NvimUpdate
    \/ updateGet
    \/ update

SpecDrain == Init /\ [][NextDrain]_vars

\* the entries of stack queued for name, in arrival order
RECURSIVE EntriesFor(_, _)
EntriesFor(stack, name) ==
    IF stack = <<>> THEN <<>>
    ELSE IF Head(stack).name = name
         THEN <<Head(stack).value>> \o EntriesFor(Tail(stack), name)
         ELSE EntriesFor(Tail(stack), name)

\* the last element of a non-empty sequence
Last(seq) == seq[Len(seq)]

\* C15: within one drain of the option-change queue the entries are applied
\* in arrival order, so that for every option name the value in effect after
\* the drain is the value of the last entry queued for that name in that
\* drain; after the drain the queue is empty.
C15_LastEntryInEffect ==
    [][(appPc = "poll" /\ appPc' # "poll" /\ opt.changed) =>
          LET tps == EntriesFor(opt.stack, OPTION_TARGET_TPS)
              menu == EntriesFor(opt.stack, OPTION_CONTEXT_MENU)
              zoom == EntriesFor(opt.stack, OPTION_KEY_ZOOMIN)
          IN  /\ tps # <<>> =>
                    Atoi(Last(tps)).ok /\ opt'.options.targetTPS = Atoi(Last(tps)).v
              /\ menu # <<>> =>
                    ParseBool(Last(menu)).ok
                    /\ opt'.options.contextMenuEnabled = ParseBool(Last(menu)).v
              /\ zoom # <<>> => opt'.options.keyIncreaseFontSize = Last(zoom)
              /\ opt'.stack = <<>>
              /\ ~opt'.changed]_vars

\* C18: a drain performed while its queue is empty has no observable side
\* effect: update() with no pending call dispatches nothing, does not raise
\* the window and leaves queue and flag unchanged, and checkOptions with no
\* pending change leaves every option and the queue unchanged.
C18_EmptyDrainNoEffect ==
    [][/\ (appPc = "get" /\ appPc' # "get" /\ ~callsAvailable) =>
             /\ UNCHANGED <<calls, callsAvailable, callsMutex, dispatched, raised, serverAlive>>
             /\ appPc' = UpdateReturn
       /\ (appPc = "poll" /\ appPc' # "poll" /\ ~opt.changed) =>
             /\ opt'.options = opt.options
             /\ opt'.stack = opt.stack
             /\ opt'.changed = opt.changed
             /\ opt'.resets = 0
             /\ appPc' # "crashed"]_vars

\* a tick in which both drains found nothing, after an earlier tick that
\* applied an option change and dispatched a call
C18_Witness ==
    /\ appPc = "select"
    /\ drainsInTick = 1
    /\ opt.last = "skipped"
    /\ opt.stack = <<>>
    /\ opt.options # DefaultOptions
    /\ nConsumed[1] > 0
    /\ calls = <<>>
    /\ dispatched = <<>>
    /\ raised = 0

(***************************************************************************)
(* SpecInput: NvimProcess.input and NvimProcess.inputMouse, called by the  *)
(* event handlers while the tick loop polls events.                        *)
(***************************************************************************)
\* keycodes the key and character handlers pass to input
InputKeycodes == {"a", "<CR>"}
\* buttons the mouse handlers pass to inputMouse
InputButtons == {"left", "wheel"}

\* one transmission and its log lines, repeated once when it failed
inputRetry(keycode, written, err) ==
    /\ appPc = "poll"
    /\ inp.calls < MaxInputs
    /\ err => written = 0
    /\ inp' = [inp EXCEPT
                 !.calls = @ + 1,
                 !.attempts = @ + (IF err THEN 2 ELSE 1),
                 !.outcomes = Append(@, [kind |-> "input", what |-> keycode,
                                         written |-> Len(keycode), err |-> FALSE]),
                 !.warns = @ + (IF err THEN 1 ELSE 0)]
    /\ UNCHANGED <<coordvars, kin, gpu, opt, ver, shut>>

\* input(keycode): written, err := proc.handle.Input(keycode); a warning
\* for err != nil and one for written != len(keycode)
input(keycode, written, err) ==
    /\ appPc = "poll"
    /\ inp.calls < MaxInputs
    /\ err => written = 0
    /\ inp' = [inp EXCEPT
                 !.calls = @ + 1,
                 !.attempts = @ + 1,
                 !.outcomes = Append(@, [kind |-> "input", what |-> keycode,
                                         written |-> written, err |-> err]),
                 !.warns = @ + (IF err THEN 1 ELSE 0)
                             + (IF written # Len(keycode) THEN 1 ELSE 0)]
    /\ UNCHANGED <<coordvars, kin, gpu, opt, ver, shut>>

\* inputMouse(button, ...): err := proc.handle.InputMouse(...); a warning
\* for err != nil
inputMouse(button, err) ==
    /\ appPc = "poll"
    /\ inp.calls < MaxInputs
    /\ inp' = [inp EXCEPT
                 !.calls = @ + 1,
                 !.attempts = @ + 1,
                 !.outcomes = Append(@, [kind |-> "inputMouse", what |-> button,
                                         written |-> 0, err |-> err]),
                 !.warns = @ + (IF err THEN 1 ELSE 0)]
    /\ UNCHANGED <<coordvars, kin, gpu, opt, ver, shut>>

NextInput ==
    \/ \E keycode \in InputKeycodes, err \in BOOLEAN :
          \E written \in 0..Len(keycode) : input(keycode, written, err)
    \/ \E button \in InputButtons, err \in BOOLEAN : inputMouse(button, err)
    \/ Tick
    \/ UpdateHandler
    \/ updateGet

SpecInput == Init /\ [][NextInput]_vars

\* C19: input delivery is at-most-once: each input or inputMouse call makes
\* exactly one transmission attempt; on a transmission failure the input is
\* dropped without any retry, no queue or session state changes, and the
\* session continues.
C19_OneAttemptNoRetry ==
    [][inp' # inp =>
          /\ inp'.calls = inp.calls + 1
          /\ inp'.attempts = inp.attempts + 1
          /\ Len(inp'.outcomes) = inp'.attempts
          /\ SubSeq(inp'.outcomes, 1, Len(inp.outcomes)) = inp.outcomes
          /\ UNCHANGED <<coordvars, kin, gpu, opt, ver, shut>>
          /\ appPc' = "poll"
          /\ serverAlive']_vars

\* a key input whose transmission failed, followed by a mouse input that
\* was delivered, and the tick loop back at its select
C19_Witness ==
    /\ Len(inp.outcomes) = 2
    /\ inp.outcomes[1].kind = "input"
    /\ inp.outcomes[1].err
    /\ inp.outcomes[2].kind = "inputMouse"
    /\ ~inp.outcomes[2].err
    /\ inp.attempts = 2
    /\ inp.warns = 2
    /\ appPc = "select"

(***************************************************************************)
(* SpecShutdown: the quit event of SpecQuit followed by ShutdownEditor,    *)
(* which the program runs once MainLoop has returned.                      *)
(***************************************************************************)
\* MainLoop has returned: run = false, SetEditorState(EditorLoopStopped)
AfterMainLoop == appPc = "stopped"

\* the calls of a ShutdownEditor that closes the backend connection before
\* the listener
ShutdownStepsNvimFirst ==
    <<"ticker.Stop", "nvim.Close">>
    \o (IF hasServer THEN <<"server.Close">> ELSE <<>>)
    \o <<"contextMenu.Destroy", "cursor.Destroy", "gridManager.Destroy",
         "window.Destroy", "glfw.Terminate">>

\* the calls of ShutdownEditor, in the order of its statements
ShutdownSteps ==
    <<"ticker.Stop">>
    \o (IF hasServer THEN <<"server.Close">> ELSE <<>>)
    \o <<"nvim.Close", "contextMenu.Destroy", "cursor.Destroy", "gridManager.Destroy",
         "window.Destroy", "glfw.Terminate">>

\* the calls that release GPU and window resources
ReleaseSteps ==
    {"contextMenu.Destroy", "cursor.Destroy", "gridManager.Destroy", "window.Destroy",
     "glfw.Terminate"}

\* the next statement of ShutdownEditor
ShutdownEditor ==
    /\ AfterMainLoop
    /\ Len(shut) < Len(ShutdownSteps)
    /\ shut' = Append(shut, ShutdownSteps[Len(shut) + 1])
    /\ UNCHANGED <<coordvars, kin, gpu, opt, ver, inp>>

NextShutdown ==
    \/ \E err \in BOOLEAN : ServeReturns(err)
    \/ ServeSend
    \/ Tick
    \/ EventHandlerRefresh
    \/ EventHandlerClose
    \/ UpdateHandler
    \/ updateGet
    \/ QuitReceived
    \/ ShutdownEditor

SpecShutdown == InitQuit /\ [][NextShutdown]_vars

\* the positions of a call in the shutdown so far
StepAt(step) == {i \in 1..Len(shut) : shut[i] = step}

\* C20: after the tick loop has observed the termination signal, shutdown
\* runs in a fixed order: the coordinator listener is stopped first, then the
\* backend connection is closed, and only then are GPU/window resources
\* released; no tick (drain, draw or render) runs after the loop has stopped.
C20_OrderedShutdown ==
    /\ [](/\ shut # <<>> => appPc = "stopped"
          /\ \A i \in StepAt("nvim.Close") :
                hasServer => \E j \in StepAt("server.Close") : j < i
          /\ \A r \in ReleaseSteps : \A i \in StepAt(r) :
                /\ \E j \in StepAt("nvim.Close") : j < i
                /\ hasServer => \E j \in StepAt("server.Close") : j < i
          /\ \A s \in ReleaseSteps \cup {"server.Close", "nvim.Close"} :
                Cardinality(StepAt(s)) <= 1)
    /\ [][appPc = "stopped" =>
             /\ appPc' = "stopped"
             /\ UNCHANGED <<refreshesInTick, drainsInTick, dispatched, raised, calls,
                            callsAvailable, opt>>]_vars

\* ShutdownEditor has run to its end in a session that had a coordinator
\* server, after a tick loop that ran a tick and then received the quit event
C20_Witness ==
    /\ hasServer
    /\ appPc = "stopped"
    /\ drainsInTick > 0
    /\ Len(shut) = 8
    /\ shut[2] = "server.Close"
    /\ shut[3] = "nvim.Close"
    /\ shut[8] = "glfw.Terminate"

(***************************************************************************)
(* SpecMouse: ButtonEventHandler, MousePosEventHandler and                 *)
(* ScrollEventHandler under any sequence of button, motion and scroll      *)
(* events, with the popup menu enabled or not and any tracked modifiers.   *)
(***************************************************************************)
\* EditorSingleton.cellWidth, EditorSingleton.cellHeight, in pixels
cellWidth == 10
cellHeight == 20

\* buttons the window reports: left, right, middle and one more
Buttons == {"left", "right", "middle", "button4"}
\* cursor positions the window reports, in half pixels: left of and above
\* the window, and inside it
XHalves == {-15, 51}
YHalves == {-50, 91}
\* vertical scroll offsets the window reports
ScrollOffsets == {-1, 0, 1}

\* Go's integer division, which truncates toward zero (b > 0)
GoDiv(a, b) == IF a >= 0 THEN a \div b ELSE -((-a) \div b)
\* int(xpos) for a float64 of h half pixels: truncation toward zero
IntOfHalves(h) == GoDiv(h, 2)

\* lastMouseModifiers as the string passed to InputMouse
RECURSIVE ModString(_)
ModString(m) == IF m = <<>> THEN "" ELSE Head(m) \o ModString(Tail(m))

\* row := lastMousePos.Y / cellHeight; col := lastMousePos.X / cellWidth;
\* InputMouse(button, action, lastMouseModifiers, 0, row, col)
InputMouse(button, action) ==
    [button |-> button, action |-> action, modifier |-> ModString(mou.lastMouseModifiers),
     grid |-> 0, row |-> GoDiv(mou.lastMousePos.Y, cellHeight),
     col |-> GoDiv(mou.lastMousePos.X, cellWidth)]

\* a right button that is never kept from the backend
RightConsumedNever(action) == FALSE

\* case glfw.MouseButtonRight: if action == glfw.Press && popupMenuEnabled
RightConsumed(action) == action = "Press" /\ kin.popupMenuEnabled

\* case glfw.MouseButtonLeft: if action == glfw.Press && popupMenuEnabled
\* the click is offered to popupMenu.MouseClick
LeftOffered(action) == action = "Press" /\ kin.popupMenuEnabled

\* ButtonEventHandler; handled is what popupMenu.MouseClick returns
ButtonEventHandler(button, action, handled) ==
    /\ action = "Press" => button \notin mou.held
    /\ action = "Release" => button \in mou.held
    /\ LET offered == (button = "left" /\ LeftOffered(action))
                      \/ (button = "right" /\ RightConsumed(action))
           return == \/ button = "left" /\ LeftOffered(action) /\ handled
                     \/ button = "right" /\ RightConsumed(action)
                     \/ button \notin {"left", "right", "middle"}
           actionCode == IF action = "Release" THEN "release" ELSE "press"
           held == IF action = "Press" THEN mou.held \cup {button} ELSE mou.held \ {button}
           ev == [type |-> "button", button |-> button, action |-> action,
                  offered |-> offered, handled |-> offered /\ handled]
       IN  IF return
           THEN mou' = [mou EXCEPT !.held = held, !.ev = ev, !.out = <<>>]
           ELSE mou' = [mou EXCEPT !.held = held, !.ev = ev,
                                   !.out = <<InputMouse(button, actionCode)>>,
                                   !.lastMouseButton = button,
                                   !.lastMouseAction = action,
                                   !.forwardedDown = IF action = "Press" THEN @ \cup {button}
                                                     ELSE @ \ {button}]
    /\ UNCHANGED <<basevars, rgl, fn, ed>>

\* MousePosEventHandler
MousePosEventHandler(xh, yh) ==
    /\ LET pos == [X |-> IntOfHalves(xh), Y |-> IntOfHalves(yh)]
           moved == [mou EXCEPT !.lastMousePos = pos] IN
       mou' = [moved EXCEPT
                 !.ev = [NoEvent EXCEPT !.type = "move"],
                 !.out = IF mou.lastMouseAction = "Press"
                         THEN <<[button |-> mou.lastMouseButton, action |-> "drag",
                                 modifier |-> ModString(mou.lastMouseModifiers), grid |-> 0,
                                 row |-> GoDiv(pos.Y, cellHeight),
                                 col |-> GoDiv(pos.X, cellWidth)]>>
                         ELSE <<>>]
    /\ UNCHANGED <<basevars, rgl, fn, ed>>

\* a direction that follows the sign, "down" unless the offset is positive
ScrollActionBySign(ypos) == IF ypos > 0 THEN "up" ELSE "down"
\* action := "up"; if ypos < 0 { action = "down" }
ScrollAction(ypos) == IF ypos < 0 THEN "down" ELSE "up"

\* ScrollEventHandler
ScrollEventHandler(ypos) ==
    /\ mou' = [mou EXCEPT
                 !.ev = [NoEvent EXCEPT !.type = "scroll",
                                        !.action = IF ypos < 0 THEN "neg"
                                                   ELSE IF ypos = 0 THEN "zero" ELSE "pos"],
                 !.out = <<InputMouse("wheel", ScrollAction(ypos))>>]
    /\ UNCHANGED <<basevars, rgl, fn, ed>>

\* ModifierKeys: the marker of a modifier key
ModifierKeys(key) ==
    CASE key \in {"LeftControl", "RightControl"} -> "C"
      [] key \in {"LeftAlt", "RightAlt"} -> "A"
      [] key \in {"LeftShift", "RightShift"} -> "S"
      [] key \in {"LeftSuper", "RightSuper"} -> "D"

\* the keys of ModifierKeys
AllModifierKeys ==
    {"LeftControl", "RightControl", "LeftAlt", "RightAlt", "LeftShift", "RightShift",
     "LeftSuper", "RightSuper"}

\* strings.Replace(s, code, "", 1) on the sequence of markers
RECURSIVE ReplaceFirst(_, _)
ReplaceFirst(m, code) ==
    IF m = <<>> THEN <<>>
    ELSE IF Head(m) = code THEN Tail(m)
    ELSE <<Head(m)>> \o ReplaceFirst(Tail(m), code)

\* a press that appends the marker without looking for it
ModifierPressedAlways(m, code) == Append(m, code)

\* if strings.Index(lastMouseModifiers, code) == -1 { lastMouseModifiers += code }
ModifierPressed(m, code) ==
    IF \E i \in 1..Len(m) : m[i] = code THEN m ELSE Append(m, code)

\* else if action == glfw.Release && lastMouseModifiers != ""
ModifierReleased(m, code) == IF m # <<>> THEN ReplaceFirst(m, code) ELSE m

\* KeyEventHandler for a modifier key: code, ok := ModifierKeys[key]; if ok
\* { ...; return }
KeyEventHandlerModifier(key, action) ==
    /\ action = "Press" => key \notin mou.heldKeys
    /\ action \in {"Repeat", "Release"} => key \in mou.heldKeys
    /\ LET code == ModifierKeys(key) IN
       mou' = [mou EXCEPT
                 !.heldKeys = CASE action = "Press" -> @ \cup {key}
                                [] action = "Release" -> @ \ {key}
                                [] OTHER -> @,
                 !.lastMouseModifiers = CASE action = "Press" -> ModifierPressed(@, code)
                                          [] action = "Release" -> ModifierReleased(@, code)
                                          [] OTHER -> @,
                 !.ev = [NoEvent EXCEPT !.type = "modkey", !.button = key, !.action = action],
                 !.out = <<>>]
    /\ UNCHANGED <<basevars, rgl, fn, ed>>

\* the modifier keys pressed around mouse events
MouseModifierKeys == {"LeftControl", "RightControl", "LeftShift"}

InitMouse ==
    /\ BaseInit
    /\ GpuInit
    /\ OptIdle
    /\ VerIdle
    /\ InpInit
    /\ shut = <<>>
    /\ MoreInit
    /\ \E popup \in BOOLEAN : kin = [KeyIdleRecord EXCEPT !.popupMenuEnabled = popup]

NextMouse ==
    \/ \E button \in Buttons, action \in {"Press", "Release"}, handled \in BOOLEAN :
          ButtonEventHandler(button, action, handled)
    \/ \E xh \in XHalves, yh \in YHalves : MousePosEventHandler(xh, yh)
    \/ \E ypos \in ScrollOffsets : ScrollEventHandler(ypos)
    \/ \E key \in MouseModifierKeys, action \in Actions : KeyEventHandlerModifier(key, action)

SpecMouse == InitMouse /\ [][NextMouse]_vars

(***************************************************************************)
(* SpecModifier: KeyEventHandler under any sequence of press, repeat and   *)
(* release events of the eight modifier keys.                              *)
(***************************************************************************)
NextModifier ==
    \E key \in AllModifierKeys, action \in Actions : KeyEventHandlerModifier(key, action)

SpecModifier == Init /\ [][NextModifier]_vars

(***************************************************************************)
(* Properties of the mouse handlers.                                       *)
(***************************************************************************)
\* the buttons the backend knows, of those physically down
HeldButtons == mou.held \cap {"left", "right", "middle"}

\* C21: every pointer motion that occurs while some mouse button remains
\* down is forwarded as a 'drag' action for a button that is held, and a
\* motion that occurs while no button is down forwards nothing.
C21_MotionDragsHeldButton ==
    mou.ev.type = "move" =>
        /\ HeldButtons # {} =>
              /\ Len(mou.out) = 1
              /\ mou.out[1].action = "drag"
              /\ mou.out[1].button \in HeldButtons
        /\ mou.held = {} => mou.out = <<>>

\* the one mouse input the claim expects for the last button event
ExpectedButtonInput ==
    [button |-> mou.ev.button,
     action |-> IF mou.ev.action = "Press" THEN "press" ELSE "release",
     modifier |-> ModString(mou.lastMouseModifiers), grid |-> 0,
     row |-> GoDiv(mou.lastMousePos.Y, cellHeight),
     col |-> GoDiv(mou.lastMousePos.X, cellWidth)]

\* C22: a right-button press while popups are enabled is never forwarded; a
\* left-button press while popups are enabled is first offered to popup
\* hit-testing and is forwarded only if the popup did not handle it; every
\* other press or release of the left, right or middle button is forwarded as
\* exactly one mouse input carrying the button, the action, the current
\* modifiers, row = pointer y div cell height and col = pointer x div cell
\* width.
C22_ButtonForwarding ==
    (mou.ev.type = "button" /\ mou.ev.button \in {"left", "right", "middle"}) =>
        CASE mou.ev.button = "right" /\ mou.ev.action = "Press" /\ kin.popupMenuEnabled ->
                mou.out = <<>>
          [] mou.ev.button = "left" /\ mou.ev.action = "Press" /\ kin.popupMenuEnabled ->
                /\ mou.ev.offered
                /\ mou.ev.handled => mou.out = <<>>
                /\ ~mou.ev.handled => mou.out = <<ExpectedButtonInput>>
          [] OTHER ->
                mou.out = <<ExpectedButtonInput>>

\* with popups enabled, the left Shift pressed and then the right Control,
\* a left press the popup did not handle was forwarded from a position
\* inside the window
C22_Witness ==
    /\ kin.popupMenuEnabled
    /\ mou.ev.type = "button"
    /\ mou.ev.button = "left"
    /\ mou.ev.action = "Press"
    /\ mou.ev.offered
    /\ ~mou.ev.handled
    /\ mou.heldKeys = {"RightControl", "LeftShift"}
    /\ mou.out = <<[button |-> "left", action |-> "press", modifier |-> "SC", grid |-> 0,
                    row |-> 2, col |-> 2]>>

(***************************************************************************)
(* Properties of the modifier tracking.                                    *)
(***************************************************************************)
\* how often a marker occurs in lastMouseModifiers
Occurrences(code) == Cardinality({i \in 1..Len(mou.lastMouseModifiers) :
                                    mou.lastMouseModifiers[i] = code})

\* C23: after any sequence of modifier key events the logical modifier set
\* contains each of the markers C, S, A, D at most once; pressing either the
\* left or the right physical variant adds the logical modifier, releasing
\* either removes it, and a modifier key event never forwards a key token.
C23_ModifierSetTracking ==
    /\ \A code \in {"C", "S", "A", "D"} : Occurrences(code) <= 1
    /\ \A i \in 1..Len(mou.lastMouseModifiers) :
          mou.lastMouseModifiers[i] \in {"C", "S", "A", "D"}
    /\ mou.ev.type = "modkey" =>
          /\ mou.ev.action = "Press" => Occurrences(ModifierKeys(mou.ev.button)) = 1
          /\ mou.ev.action = "Release" => Occurrences(ModifierKeys(mou.ev.button)) = 0
          /\ mou.out = <<>>
          /\ kin.keySent = <<>>
          /\ kin.charSent = <<>>

\* the right Super was pressed while the left one was down and three other
\* modifiers were tracked
C23_Witness ==
    /\ mou.ev.type = "modkey"
    /\ mou.ev.button = "RightSuper"
    /\ mou.ev.action = "Press"
    /\ "LeftSuper" \in mou.heldKeys
    /\ Len(mou.lastMouseModifiers) = 4
    /\ Occurrences("D") = 1

(***************************************************************************)
(* The encoding of a RemoteCall taken alone: a record is drawn, encoded    *)
(* as Call() and the reader's reply do (json.Marshal) and decoded as the   *)
(* reader and Call() do (json.Unmarshal into IpcFuncCall, whose Args are   *)
(* []interface{}).                                                         *)
(***************************************************************************)
\* longest Args list drawn
MaxArgs == 2

\* Go values a caller may pass in Args: a path, an empty string, ints and
\* a float64
ArgValues == {GoString(ShortPath), GoString(0), GoInt(3), GoInt(0), GoFloat64(3)}

RECURSIVE ArgLists(_)
ArgLists(n) == IF n = 0 THEN {<<>>}
               ELSE ArgLists(n - 1) \cup
                    {Append(l, v) : l \in {x \in ArgLists(n - 1) : Len(x) = n - 1},
                                    v \in ArgValues}

\* the records drawn: every message type, the identities a machine can have
FuncCalls == {[MsgType |-> t, MacAddress |-> m, Args |-> args] :
                 t \in IpcMessageType, m \in PeerMacs, args \in ArgLists(MaxArgs)}

InitCodec ==
    /\ BaseInit
    /\ GpuInit
    /\ OptIdle
    /\ VerIdle
    /\ InpInit
    /\ shut = <<>>
    /\ KeyIdle
    /\ MouIdle
    /\ RglIdle
    /\ EdIdle
    /\ \E call \in FuncCalls :
          fn = [pc |-> "call", call |-> call, data |-> Garbage, got |-> NoCall,
                interfaces |-> <<>>, err |-> FALSE, mac |-> 0]

\* jsonData, err := json.Marshal(IpcFuncCall{...})
Encode ==
    /\ fn.pc = "call"
    /\ fn' = [fn EXCEPT !.pc = "encoded", !.data = Marshal(fn.call)]
    /\ UNCHANGED <<basevars, mou, rgl, ed>>

\* err = json.Unmarshal(data, &funcCall)
Decode ==
    /\ fn.pc = "encoded"
    /\ ~UnmarshalErr(fn.data)
    /\ fn' = [fn EXCEPT !.pc = "decoded", !.got = Unmarshal(fn.data)]
    /\ UNCHANGED <<basevars, mou, rgl, ed>>

NextCodec ==
    \/ Encode
    \/ Decode

SpecCodec == InitCodec /\ [][NextCodec]_vars

\* C24: encoding a RemoteCall and then decoding it yields a record with the
\* same MsgType, the same MachineIdentity and the same Args (same length,
\* same values, same order), for each of the five message types.
C24_RoundTripPreserves ==
    fn.pc = "decoded" =>
        /\ fn.got.MsgType = fn.call.MsgType
        /\ fn.got.MacAddress = fn.call.MacAddress
        /\ Len(fn.got.Args) = Len(fn.call.Args)
        /\ \A i \in 1..Len(fn.call.Args) : fn.got.Args[i] = fn.call.Args[i]

\* what the round trip does preserve: MsgType, MachineIdentity, the length
\* and order of Args, every string, and the number of every numeric value
C24_RoundTripUpToKind ==
    fn.pc = "decoded" =>
        /\ fn.got.MsgType = fn.call.MsgType
        /\ fn.got.MacAddress = fn.call.MacAddress
        /\ Len(fn.got.Args) = Len(fn.call.Args)
        /\ \A i \in 1..Len(fn.call.Args) :
              /\ fn.got.Args[i].v = fn.call.Args[i].v
              /\ fn.call.Args[i].k = "string" => fn.got.Args[i] = fn.call.Args[i]
              /\ fn.call.Args[i].k # "string" => fn.got.Args[i].k = "float64"

(***************************************************************************)
(* getMacAddress() taken alone, over the interface lists net.Interfaces()  *)
(* may return.  An interface is [up, addr]: its FlagUp bit and its         *)
(* HardwareAddr as a sequence of bytes.                                    *)
(***************************************************************************)
\* most interfaces enumerated
MaxInterfaces == 2

\* hardware addresses: none, universally administered ones of two bytes and
\* one byte, locally administered ones (first octet 2 and 3), and one of
\* nine bytes
HardwareAddrs == {<<>>, <<0, 1>>, <<4, 5>>, <<1>>, <<2, 1>>, <<3, 0>>,
                  <<0, 0, 0, 0, 0, 0, 1, 2, 9>>}

NetInterfaces == [up : BOOLEAN, addr : HardwareAddrs]

RECURSIVE InterfaceLists(_)
InterfaceLists(n) == IF n = 0 THEN {<<>>}
                     ELSE InterfaceLists(n - 1) \cup
                          {Append(l, i) : l \in {x \in InterfaceLists(n - 1) : Len(x) = n - 1},
                                          i \in NetInterfaces}

\* a first octet no address is skipped for
LocallyAdministeredNever(b) == FALSE
\* i.HardwareAddr[0]&2 == 2
LocallyAdministered(b) == (b \div 2) % 2 = 1

\* for j, b := range i.HardwareAddr { if j >= 8 { break }; mac <<= 8;
\* mac += uint64(b) }, from index j on; eight bytes fill the 64 bits, so
\* nothing is shifted out
RECURSIVE macOfBytes(_, _, _)
macOfBytes(addr, j, mac) ==
    IF j >= Len(addr) \/ j >= 8 THEN mac
    ELSE macOfBytes(addr, j + 1, mac * 256 + addr[j + 1])

\* the loop over the interfaces
RECURSIVE macOfInterfaces(_)
macOfInterfaces(interfaces) ==
    IF interfaces = <<>> THEN 0
    ELSE LET i == Head(interfaces) IN
         IF i.up /\ i.addr # <<>>
         THEN IF LocallyAdministered(i.addr[1]) THEN macOfInterfaces(Tail(interfaces))
              ELSE macOfBytes(i.addr, 0, 0)
         ELSE macOfInterfaces(Tail(interfaces))

\* getMacAddress() when net.Interfaces() returned (interfaces, err)
getMacAddressOf(interfaces, err) == IF err THEN 0 ELSE macOfInterfaces(interfaces)

InitMac ==
    /\ BaseInit
    /\ GpuInit
    /\ OptIdle
    /\ VerIdle
    /\ InpInit
    /\ shut = <<>>
    /\ KeyIdle
    /\ MouIdle
    /\ RglIdle
    /\ EdIdle
    /\ \E interfaces \in InterfaceLists(MaxInterfaces), err \in BOOLEAN :
          fn = [pc |-> "enumerate", call |-> NoCall, data |-> Garbage, got |-> NoCall,
                interfaces |-> interfaces, err |-> err, mac |-> 0]

\* mac: getMacAddress() in CreateClient and CreateServer
GetMacAddress ==
    /\ fn.pc = "enumerate"
    /\ fn' = [fn EXCEPT !.pc = "identified",
                        !.mac = getMacAddressOf(fn.interfaces, fn.err)]
    /\ UNCHANGED <<basevars, mou, rgl, ed>>

NextMac == GetMacAddress

SpecMac == InitMac /\ [][NextMac]_vars

\* an interface the identity may be taken from
Qualifies(i) == i.up /\ Len(i.addr) > 0 /\ i.addr[1] % 4 \in {0, 1}

RECURSIVE Pow256(_)
Pow256(n) == IF n = 0 THEN 1 ELSE 256 * Pow256(n - 1)

\* the number whose base-256 digits, most significant first, are the bytes
\* (a zero digit adds nothing, whatever its place)
RECURSIVE BigEndian(_)
BigEndian(bytes) ==
    IF bytes = <<>> THEN 0
    ELSE IF Head(bytes) = 0 THEN BigEndian(Tail(bytes))
    ELSE Head(bytes) * Pow256(Len(bytes) - 1) + BigEndian(Tail(bytes))

\* the first min(8, Len) bytes
First8(addr) == SubSeq(addr, 1, IF Len(addr) < 8 THEN Len(addr) ELSE 8)

\* C25: MachineIdentity equals the big-endian value of the first 8 bytes
\* (fewer if the address is shorter) of the hardware address of the first
\* interface, in enumeration order, that is up, has a non-empty hardware
\* address and whose first octet does not have its second-lowest bit set;
\* it is 0 when no interface qualifies or enumeration fails.
C25_MachineIdentity ==
    fn.pc = "identified" =>
        LET qualifying == {k \in 1..Len(fn.interfaces) : Qualifies(fn.interfaces[k])} IN
        IF fn.err \/ qualifying = {}
        THEN fn.mac = 0
        ELSE LET first == CHOOSE k \in qualifying : \A l \in qualifying : k <= l IN
             fn.mac = BigEndian(First8(fn.interfaces[first].addr))

\* the first interface is up with a locally administered address, the second
\* is up with a nine-byte address, and the identity is that of its first
\* eight bytes
C25_Witness ==
    /\ fn.pc = "identified"
    /\ ~fn.err
    /\ fn.interfaces = <<[up |-> TRUE, addr |-> <<2, 1>>],
                         [up |-> TRUE, addr |-> <<0, 0, 0, 0, 0, 0, 1, 2, 9>>]>>
    /\ fn.mac = 258

(***************************************************************************)
(* SpecRgl: the life of the renderer's GL objects.  rgl.created holds the  *)
(* objects a create call returned, rgl.alive those no delete call was      *)
(* made for.                                                               *)
(***************************************************************************)
\* RGL_InitShaders: the two shaders are compiled, attached to the program
\* created into rgl_shader_program, and deleted again after linking
ShaderObjects == {"vertexShader", "fragmentShader"}

\* what RGL_Init creates: GLCreateContext, RGL_InitShaders,
\* gl.CreateVertexArrays(1, &rgl_vao), gl.GenBuffers(1, &rgl_vbo),
\* gl.GenBuffers(1, &rgl_ebo)
InitObjects == {"rgl_context", "rgl_shader_program", "rgl_vao", "rgl_vbo", "rgl_ebo"}

\* what RGL_Close deletes: gl.DeleteProgram(rgl_shader_program),
\* gl.DeleteBuffers(1, &rgl_vbo), gl.DeleteVertexArrays(1, &rgl_vao),
\* sdl.GLDeleteContext(rgl_context)
CloseObjects == {"rgl_shader_program", "rgl_vbo", "rgl_vao", "rgl_context"}

RGL_Init ==
    /\ rgl.pc = "start"
    /\ rgl' = [rgl EXCEPT !.pc = "ready",
                          !.created = InitObjects \cup ShaderObjects,
                          !.alive = (InitObjects \cup ShaderObjects) \ ShaderObjects]
    /\ UNCHANGED <<basevars, mou, fn, ed>>

RGL_Close ==
    /\ rgl.pc = "ready"
    /\ rgl' = [rgl EXCEPT !.pc = "closed", !.alive = @ \ CloseObjects]
    /\ UNCHANGED <<basevars, mou, fn, ed>>

NextRgl ==
    \/ RGL_Init
    \/ rgl.pc = "ready" /\ NextGpu
    \/ RGL_Close

SpecRgl == Init /\ [][NextRgl]_vars

\* C26: every GPU object created at initialization (shader program, vertex
\* array, vertex buffer, index buffer, render context) is destroyed at
\* teardown: after RGL_Init followed by RGL_Close no created object remains
\* alive.
C26_AllObjectsDestroyed ==
    rgl.pc = "closed" => rgl.alive = {}

\* the objects RGL_Close does delete are gone after it, and the shaders are
\* gone after RGL_Init already
C26_DeletedObjectsGone ==
    /\ rgl.pc = "closed" => rgl.alive \cap CloseObjects = {}
    /\ rgl.pc # "start" => rgl.alive \cap ShaderObjects = {}
    /\ rgl.pc = "ready" => rgl.alive = InitObjects

(***************************************************************************)
(* Properties of the character path.                                       *)
(***************************************************************************)
\* the character of the press being handled
PressedChar == CharOf(kin.key, kin.action, kin.ctrl, kin.shift, kin.alt, kin.super)

\* C27: character input forwards exactly one literal-text input per
\* character event, except that a space forwards nothing on the character
\* path (it is forwarded once by the key path as the Space token) and '<' is
\* forwarded as the token '<LT>'.
C27_CharacterInput ==
    kin.pc = "done" =>
        CASE PressedChar = " " ->
                /\ kin.charSent = <<>>
                /\ kin.keySent = <<IF kin.shift THEN "<S-Space>" ELSE "<Space>">>
          [] PressedChar = "<" -> kin.charSent = <<"<LT>">>
          [] OTHER -> kin.charSent = <<PressedChar>>

\* a repeat of the unshifted space key went through both paths
C27_WitnessSpace ==
    /\ kin.pc = "done"
    /\ kin.key = "Space"
    /\ kin.action = "Repeat"
    /\ ~kin.shift
    /\ kin.keySent = <<"<Space>">>
    /\ kin.charSent = <<>>

\* a press of the shifted comma key delivered '<' and "<LT>" was forwarded
C27_Witness ==
    /\ kin.pc = "done"
    /\ kin.key = ","
    /\ kin.shift
    /\ kin.charSent = <<"<LT>">>

(***************************************************************************)
(* Properties of the scroll path.                                          *)
(***************************************************************************)
\* C28: every scroll event forwards exactly one 'wheel' mouse input whose
\* direction is 'down' if the vertical offset is strictly negative and 'up'
\* otherwise, so offsets -1, 0 and +1 yield down, up and up.
C28_ScrollDirection ==
    mou.ev.type = "scroll" =>
        /\ Len(mou.out) = 1
        /\ mou.out[1].button = "wheel"
        /\ mou.ev.action = "neg" => mou.out[1].action = "down"
        /\ mou.ev.action = "zero" => mou.out[1].action = "up"
        /\ mou.ev.action = "pos" => mou.out[1].action = "up"

\* a scroll of offset 0 was forwarded as wheel/up while a button was held
C28_Witness ==
    /\ mou.ev.type = "scroll"
    /\ mou.ev.action = "zero"
    /\ mou.held # {}
    /\ Len(mou.out) = 1
    /\ mou.out[1].button = "wheel"
    /\ mou.out[1].action = "up"

(***************************************************************************)
(* Properties of the pending flag.                                         *)
(***************************************************************************)
\* C29: in every reachable state in which the CallQueue mutex is not held,
\* the lock-free pending flag is true if and only if the CallQueue is
\* non-empty; consequently a call appended concurrently with a drain is
\* either dispatched by that drain or still flagged as pending for the next
\* tick, and is never left in the queue with the flag false.
C29_FlagIffQueued ==
    callsMutex = "free" => (callsAvailable <=> calls # <<>>)

\* one record was dispatched by a drain that raised the window, and another,
\* appended since, is queued and flagged with the mutex free
C29_Witness ==
    /\ callsMutex = "free"
    /\ raised = 1
    /\ Len(dispatched) = 1
    /\ Len(calls) = 1
    /\ callsAvailable
    /\ appPc # "drain"

(***************************************************************************)
(* Properties of the dispatch under records of any shape.                  *)
(***************************************************************************)
\* C30: dispatch of the CallQueue never aborts the server process: for every
\* record the reader accepted into the queue, whatever its message type and
\* whatever the number and types of its Args (including an empty Args list
\* or an argument of the wrong type), the drain completes and the remaining
\* queued records are still dispatched.
C30_DispatchNeverAborts ==
    [][(appPc = "drain" /\ appPc' # "drain") =>
          /\ serverAlive'
          /\ appPc' # "crashed"
          /\ Len(dispatched') = Len(dispatched) + Len(calls)]_vars

\* drains of queues whose records all carry a first argument of the type
\* their message needs complete and dispatch every record
C30_WellTypedDrainCompletes ==
    [][(appPc = "drain" /\ appPc' # "drain" /\ \A i \in 1..Len(calls) : ~Panics(calls[i])) =>
          /\ serverAlive'
          /\ appPc' # "crashed"
          /\ Len(dispatched') = Len(dispatched) + Len(calls)]_vars

(***************************************************************************)
(* Properties of a failed Call.                                            *)
(***************************************************************************)
\* C31: if a client's Call reports failure, then the server queued no record
\* for that call: a request is never both enqueued (and later dispatched) on
\* the server and reported as failed to the client.
C31_FailedCallNotQueued ==
    \A c \in Conns :
        (cpc[c] = "idle" /\ ccalls[c] > 0 /\ ret[c] = "false") => appendedFor[c] = 0

\* a Call that failed on a connection that never broke and that carried the
\* server's identity in a text of one buffer or less has nothing queued
C31_FailedOnWorkingConnectionNotQueued ==
    \A c \in Conns :
        (cpc[c] = "idle" /\ ccalls[c] > 0 /\ ret[c] = "false" /\ ~broken[c]
           /\ serverAlive /\ cliOpen[c]) => appendedFor[c] = 0

(***************************************************************************)
(* Properties of the tick rate.                                            *)
(***************************************************************************)
\* C32: after any sequence of option changes the tick period is strictly
\* positive: a TargetTPS option value of zero or below is never stored as
\* the target rate and never reaches the ticker reset, so the tick loop
\* keeps ticking.
C32_TickPeriodPositive ==
    /\ opt.options.targetTPS > 0
    /\ opt.last # "panic"
    /\ mainLoopRunning

\* option changes that carry no TargetTPS value of zero or below leave the
\* rate positive and the loop running
C32_PositiveRatesKeepTicking ==
    (\A i \in 1..Len(opt.stack) :
        ~(opt.stack[i].name = OPTION_TARGET_TPS /\ Atoi(opt.stack[i].value).ok
            /\ Atoi(opt.stack[i].value).v <= 0)) =>
        (opt.last # "panic" /\ (opt.options.targetTPS > 0 => opt.options.targetTPS \in {30, 60}))

(***************************************************************************)
(* SpecFrame: the ticks of MainLoop as far as they draw, render and handle *)
(* resize events.  ed.ops lists the draw and render calls of the last      *)
(* tick, ed.spawned the tryResizeUI goroutines started and not yet run,    *)
(* ed.requests the resize requests sent to the backend.                    *)
(***************************************************************************)
\* ticks in one run
MaxTicks == 3
\* resize events in one run
MaxResizes == 2

\* widths and heights a resize event may carry; a minimized window sends 0
ResizeWidths == {-1, 0, 5, 40}
ResizeHeights == {0, 10, 60}
\* the default grid when the loop starts: none yet, or one of 2 rows and 3
\* columns
StartGrids == {NoGrid, [ok |-> TRUE, rows |-> 2, cols |-> 3]}

InitFrame ==
    /\ BaseInit
    /\ GpuInit
    /\ OptIdle
    /\ VerIdle
    /\ InpInit
    /\ shut = <<>>
    /\ KeyIdle
    /\ MouIdle
    /\ RglIdle
    /\ FnIdle
    \* MainLoop: SetEditorState(EditorLoopStarted)
    /\ \E grid \in StartGrids :
          ed = [EdIdleRecord EXCEPT !.state = EditorLoopStarted, !.grid = grid]

\* SetEditorState(state), called with the successor of the current state
\* when the first flush arrives and when the window is shown
SetEditorState(state) ==
    /\ state \in {EditorFirstFlush, EditorWindowShown}
    /\ state = ed.state + 1
    /\ ed' = [ed EXCEPT !.state = state]
    /\ UNCHANGED <<basevars, mou, rgl, fn>>

MarkDraw ==
    /\ ed' = [ed EXCEPT !.cDraw = TRUE]
    /\ UNCHANGED <<basevars, mou, rgl, fn>>

MarkForceDraw ==
    /\ ed' = [ed EXCEPT !.cForceDraw = TRUE]
    /\ UNCHANGED <<basevars, mou, rgl, fn>>

MarkRender ==
    /\ ed' = [ed EXCEPT !.cRender = TRUE]
    /\ UNCHANGED <<basevars, mou, rgl, fn>>

\* case tick := <-Editor.ticker.C, up to Editor.window.PollEvents()
TickFrame ==
    /\ ed.pc = "select"
    /\ ed.ticks < MaxTicks
    /\ ed' = [ed EXCEPT !.pc = "poll", !.ticks = @ + 1, !.ops = <<>>]
    /\ UNCHANGED <<basevars, mou, rgl, fn>>

\* EventHandler, case window.WindowEventResize
EventHandlerResize(width, height) ==
    /\ ed.pc = "poll"
    /\ ed.events < MaxResizes
    /\ LET rows == height \div cellHeight
           cols == width \div cellWidth
           handled == [ed EXCEPT !.events = @ + 1, !.ev = [width |-> width, height |-> height]]
       IN  IF width > 0 /\ height > 0
           THEN ed' = [handled EXCEPT
                         !.spawned = IF ed.grid.ok /\ (rows # ed.grid.rows \/ cols # ed.grid.cols)
                                     THEN Append(@, [rows |-> rows, cols |-> cols])
                                     ELSE @,
                         !.viewport = [width |-> width, height |-> height],
                         !.setViewports = @ + 1,
                         !.cRender = TRUE]
           ELSE ed' = handled
    /\ UNCHANGED <<basevars, mou, rgl, fn>>

\* a resize that sends whatever it is given
requestResizeAny(rows, cols) == TRUE
\* requestResize: if rows > 0 && cols > 0 { TryResizeUI(cols, rows) }
requestResize(rows, cols) == rows > 0 /\ cols > 0

\* one of the goroutines started by go Editor.nvim.tryResizeUI(rows, cols)
\* runs
TryResizeUI(i) ==
    /\ i \in 1..Len(ed.spawned)
    /\ LET r == ed.spawned[i] IN
       ed' = [ed EXCEPT
                !.spawned = SubSeq(@, 1, i - 1) \o SubSeq(@, i + 1, Len(@)),
                !.requests = IF requestResize(r.rows, r.cols) THEN Append(@, r) ELSE @]
    /\ UNCHANGED <<basevars, mou, rgl, fn>>

\* a draw section that does not look at the editor state
DrawCallsAlways(e) ==
    LET draw == e.cDraw \/ e.cForceDraw
        render == e.cDraw \/ e.cForceDraw \/ e.cRender
    IN  [e EXCEPT !.ops = (IF draw THEN <<"draw">> ELSE <<>>) \o
                          (IF render THEN <<"render">> ELSE <<>>),
                  !.cDraw = FALSE, !.cForceDraw = FALSE, !.cRender = FALSE]
\* UpdateHandler from "// Draw calls" on, applied to the record e
DrawCalls(e) ==
    IF e.state >= EditorWindowShown
    THEN LET draw == e.cDraw \/ e.cForceDraw
             render == e.cDraw \/ e.cForceDraw \/ e.cRender
         IN  [e EXCEPT !.ops = (IF draw THEN <<"draw">> ELSE <<>>) \o
                               (IF render THEN <<"render">> ELSE <<>>),
                       !.cDraw = FALSE, !.cForceDraw = FALSE, !.cRender = FALSE]
    ELSE e

\* UpdateHandler(delta) of the tick, its draw, render and clear sections
UpdateHandlerDraw ==
    /\ ed.pc = "poll"
    /\ ed' = [DrawCalls(ed) EXCEPT
                 !.pc = "select",
                 !.kept = @ \/ (ed.state < EditorWindowShown
                                  /\ (ed.cDraw \/ ed.cForceDraw \/ ed.cRender))]
    /\ UNCHANGED <<basevars, mou, rgl, fn>>

NextFrame ==
    \/ \E state \in {EditorFirstFlush, EditorWindowShown} : SetEditorState(state)
    \/ MarkDraw
    \/ MarkForceDraw
    \/ MarkRender
    \/ TickFrame
    \/ \E width \in ResizeWidths, height \in ResizeHeights : EventHandlerResize(width, height)
    \/ \E i \in 1..MaxResizes : TryResizeUI(i)
    \/ UpdateHandlerDraw

SpecFrame == InitFrame /\ [][NextFrame]_vars

(***************************************************************************)
(* Properties of the draw and render sections.                             *)
(***************************************************************************)
\* a step that is the end of a tick's UpdateHandler
EndsTick == ed.pc = "poll" /\ ed'.pc = "select"

\* C33: no draw or render is performed in a tick while the editor state is
\* below WindowShown, and a draw, force-draw or render request marked in
\* such a tick is not lost: the flag stays set until the first tick in
\* state WindowShown or later; in such a tick a draw is always followed by a
\* render in the same tick, and all three flags are false at the end of it.
C33_DrawGatedByWindowShown ==
    [][/\ ed'.state < EditorWindowShown => ed'.ops = <<>>
       /\ (ed.cDraw /\ ~ed'.cDraw) => (EndsTick /\ ed.state >= EditorWindowShown)
       /\ (ed.cForceDraw /\ ~ed'.cForceDraw) => (EndsTick /\ ed.state >= EditorWindowShown)
       /\ (ed.cRender /\ ~ed'.cRender) => (EndsTick /\ ed.state >= EditorWindowShown)
       /\ (EndsTick /\ ed.state >= EditorWindowShown) =>
             /\ ~ed'.cDraw /\ ~ed'.cForceDraw /\ ~ed'.cRender
             /\ (ed.cDraw \/ ed.cForceDraw) => ed'.ops = <<"draw", "render">>
             /\ (~ed.cDraw /\ ~ed.cForceDraw /\ ed.cRender) => ed'.ops = <<"render">>
             /\ (~ed.cDraw /\ ~ed.cForceDraw /\ ~ed.cRender) => ed'.ops = <<>>
             /\ \A i \in 1..Len(ed'.ops) :
                   ed'.ops[i] = "draw" => (i < Len(ed'.ops) /\ ed'.ops[i + 1] = "render")]_vars

\* a request survived a tick below WindowShown, and a later tick in state
\* WindowShown drew, rendered and cleared the flags
C33_Witness ==
    /\ ed.kept
    /\ ed.state = EditorWindowShown
    /\ ed.pc = "select"
    /\ ed.ops = <<"draw", "render">>
    /\ ~ed.cDraw /\ ~ed.cForceDraw /\ ~ed.cRender

(***************************************************************************)
(* Properties of the resize event.                                         *)
(***************************************************************************)
\* a step that handles a resize event
ResizeHandled == ed'.events = ed.events + 1

\* C37: a window resize event with a width or height of zero or below
\* changes nothing: no backend resize request is sent, the viewport is not
\* recomputed and no render is requested; a resize request is sent to the
\* backend only when the computed rows or columns differ from the default
\* grid's current size and are both positive.
C37_ResizeGuards ==
    [][/\ (ResizeHandled /\ (ed'.ev.width <= 0 \/ ed'.ev.height <= 0)) =>
             /\ ed'.spawned = ed.spawned
             /\ ed'.requests = ed.requests
             /\ ed'.viewport = ed.viewport
             /\ ed'.setViewports = ed.setViewports
             /\ ed'.cRender = ed.cRender
             /\ ed'.cDraw = ed.cDraw
             /\ ed'.cForceDraw = ed.cForceDraw
             /\ ed'.grid = ed.grid
       /\ ed'.requests # ed.requests =>
             /\ Len(ed'.requests) = Len(ed.requests) + 1
             /\ LET r == ed'.requests[Len(ed'.requests)] IN
                   /\ r.rows > 0
                   /\ r.cols > 0
                   /\ ed.grid.ok
                   /\ r.rows # ed.grid.rows \/ r.cols # ed.grid.cols]_vars

\* with a default grid of 2 rows and 3 columns, a resize to 40 by 60 sent a
\* request for 3 rows and 4 columns and set the viewport, and a later resize
\* event of width 0 left everything as it was
C37_Witness ==
    /\ ed.events = 2
    /\ ed.ev = [width |-> 0, height |-> 60]
    /\ ed.requests = <<[rows |-> 3, cols |-> 4]>>
    /\ ed.viewport = [width |-> 40, height |-> 60]
    /\ ed.setViewports = 1

(***************************************************************************)
(* SpecQuitFair: SpecQuit with the scheduling the runtime gives.  The      *)
(* application thread and the Serve goroutine keep running while they can  *)
(* take a step; select picks among its ready cases at random, so a quit    *)
(* channel that stays readable whenever the loop is at its select is       *)
(* eventually chosen.  Window events and the end of the backend session    *)
(* are not owed by anyone.                                                 *)
(***************************************************************************)
QuitFairness ==
    /\ WF_vars(Tick)
    /\ WF_vars(UpdateHandler)
    /\ WF_vars(updateGet)
    /\ WF_vars(ServeSend)
    /\ SF_vars(QuitReceived)

SpecQuitFair == InitQuit /\ [][NextQuit]_vars /\ QuitFairness

\* C34: once a quit signal has been placed on the quit channel, the main
\* loop eventually stops (under fair choice between the ticker and the quit
\* channel): it reaches state LoopStopped and the application thread is
\* never left blocked forever inside a tick.
C34_QuitStopsLoop == (quitChan > 0) ~> (appPc = "stopped")

\* when the session is not one connected over TCP, a quit signal on the
\* channel is received and the loop stops
C34_QuitStopsLoopChildProcess ==
    (quitChan > 0 /\ ~connectedViaTcp) ~> (appPc = "stopped")

(***************************************************************************)
(* Properties of the sequence of forwarded button actions.                 *)
(***************************************************************************)
\* C35: over any sequence of mouse button events, every 'release' forwarded
\* to the backend for a button is preceded by a forwarded 'press' of that
\* same button with no forwarded release of it in between; a press consumed
\* by the popup menu does not lead to a forwarded release.
C35_ReleaseFollowsForwardedPress ==
    [][(/\ mou'.held # mou.held
        /\ mou'.ev.type = "button"
        /\ mou'.ev.action = "Release"
        /\ mou'.out # <<>>) => mou'.ev.button \in mou.forwardedDown]_vars

\* with popups disabled every forwarded release follows a forwarded press
C35_ReleaseFollowsPressNoPopup ==
    [][(/\ ~kin.popupMenuEnabled
        /\ mou'.held # mou.held
        /\ mou'.ev.type = "button"
        /\ mou'.ev.action = "Release"
        /\ mou'.out # <<>>) => mou'.ev.button \in mou.forwardedDown]_vars

(***************************************************************************)
(* The tracked modifiers against the physical keys that are down.          *)
(***************************************************************************)
\* the physical variants of a marker that are held down
HeldVariants(code) == {key \in mou.heldKeys : ModifierKeys(key) = code}

\* C36: after any sequence of press and release events of the left and right
\* variants of a modifier, the logical modifier is in the tracked set if and
\* only if at least one of its physical variants is currently held down.
C36_TrackedIffVariantHeld ==
    \A code \in {"C", "S", "A", "D"} : Occurrences(code) > 0 <=> HeldVariants(code) # {}

\* a tracked modifier always has a physical variant held down
C36_TrackedImpliesVariantHeld ==
    \A code \in {"C", "S", "A", "D"} : Occurrences(code) > 0 => HeldVariants(code) # {}

====
